---- MODULE Spec2Model ----
(***************************************************************************)
(* Model of amfe/hyper_red/ecsw.py: the sparse NNLS solver sparse_nnls,    *)
(* the hyper-reduced system ECSWSystem and reduce_mechanical_system_ecsw.  *)
(*                                                                         *)
(* Numbers: numpy float64 values are modelled as exact extended rationals  *)
(* <<n, d>> with d >= 0 in lowest terms; d = 0 encodes the IEEE special    *)
(* values (<<1,0>> = +inf, <<-1,0>> = -inf, <<0,0>> = nan).  Rounding is   *)
(* not modelled.  Array indices are 0-based as in the source.              *)
(***************************************************************************)
EXTENDS Integers, Sequences, FiniteSets, TLC

(***************************************************************************)
(* Bounds of the model.                                                    *)
(***************************************************************************)
\* entries of G and b are drawn from Entries
MaxEntry == 2
Entries == (0 - 1) .. MaxEntry
\* shape of G: two rows (samples), two columns (elements of the mesh)
Rows == {0, 1}
MeshSizes == {2}
\* tolerances tau = <<numerator, denominator>>, all > 0
Taus == {<<3, 4>>, <<1, 10>>}
\* known solutions x of G x = b have entries in 0 .. MaxWeight
MaxWeight == 2
\* the system objects: the mechanical system and one copy of it
SysIds == {1, 2}
\* entries of a reduction basis V
MaxBasisEntry == 1

(***************************************************************************)
(* float arithmetic                                                        *)
(***************************************************************************)
Abs(n) == IF n < 0 THEN 0 - n ELSE n

Sign(n) == IF n < 0 THEN 0 - 1 ELSE IF n > 0 THEN 1 ELSE 0

RECURSIVE GCD(_, _)
GCD(a, c) == IF c = 0 THEN a ELSE GCD(c, a % c)

\* the value n/d in canonical form
Norm(n, d) ==
    IF d = 0 THEN <<Sign(n), 0>>
    ELSE LET s == IF d < 0 THEN 0 - 1 ELSE 1
             g == GCD(Abs(n), Abs(d))
         IN  <<(s * n) \div g, (s * d) \div g>>

Q(n) == <<n, 1>>

NaN == <<0, 0>>

IsNaN(x) == x = NaN

QNeg(x) == <<0 - x[1], x[2]>>

QAdd(x, y) ==
    IF x[2] = 0 /\ y[2] = 0
    THEN (IF x = y THEN x ELSE NaN)
    ELSE Norm(x[1] * y[2] + y[1] * x[2], x[2] * y[2])

QSub(x, y) == QAdd(x, QNeg(y))

QMul(x, y) == Norm(x[1] * y[1], x[2] * y[2])

QDiv(x, y) ==
    IF y[2] = 0 /\ x[2] = 0 THEN NaN
    ELSE Norm(x[1] * y[2] * Sign(y[1]), x[2] * Abs(y[1]))

\* comparisons; every comparison with nan is false
QLe(x, y) ==
    /\ ~IsNaN(x) /\ ~IsNaN(y)
    /\ IF x[2] = 0 /\ y[2] = 0 THEN x[1] <= y[1]
       ELSE x[1] * y[2] <= y[1] * x[2]

QLt(x, y) ==
    /\ ~IsNaN(x) /\ ~IsNaN(y)
    /\ IF x[2] = 0 /\ y[2] = 0 THEN x[1] < y[1]
       ELSE x[1] * y[2] < y[1] * x[2]


(***************************************************************************)
(* sparse_nnls: linear algebra                                             *)
(***************************************************************************)
\* the sequence <<Op(1), ..., Op(n)>>
RECURSIVE Tabulate(_, _)
Tabulate(Op(_), n) ==
    IF n = 0 THEN <<>> ELSE Append(Tabulate(Op, n - 1), Op(n))

\* the array over 0 .. n-1 with entries Op(0), ..., Op(n-1)
Array(Op(_), n) ==
    LET s == Tabulate(LAMBDA p : Op(p - 1), n)
    IN  [k \in 0 .. n - 1 |-> s[k + 1]]

no_of_rows == Cardinality(Rows)

\* line 58: G.shape[1]
NoOfElements(Gm) == Cardinality(DOMAIN Gm[0])

Elements(Gm) == DOMAIN Gm[0]

\* the indices 0 .. n-1 at which Keep holds, in increasing order (numpy's
\* order of a boolean-mask selection and of np.where)
Ascending(Keep(_), n) ==
    SelectSeq(Tabulate(LAMBDA p : p - 1, n), Keep)

RECURSIVE QSum(_)
QSum(s) == IF s = <<>> THEN Q(0) ELSE QAdd(Head(s), QSum(Tail(s)))

RECURSIVE ISum(_)
ISum(s) == IF s = <<>> THEN 0 ELSE Head(s) + ISum(Tail(s))

\* s without its k-th entry
Drop(s, k) == Tabulate(LAMBDA j : IF j < k THEN s[j] ELSE s[j + 1], Len(s) - 1)

\* determinant of a square integer matrix (sequence of rows), expanded
\* along the first row
RECURSIVE Det(_)
Det(A) ==
    IF Len(A) = 0 THEN 1
    ELSE ISum(Tabulate(LAMBDA j :
                 (IF j % 2 = 1 THEN 1 ELSE 0 - 1) * A[1][j]
                 * Det(Tabulate(LAMBDA i : Drop(A[i + 1], j), Len(A) - 1)),
               Len(A)))

\* G_red.T @ G_red for the columns cols (ascending sequence) of Gm
Gram(Gm, cols) ==
    Tabulate(LAMBDA i : Tabulate(LAMBDA j :
        ISum(Tabulate(LAMBDA k : Gm[k - 1][cols[i]] * Gm[k - 1][cols[j]],
                      no_of_rows)), Len(cols)), Len(cols))

\* G_red.T @ b
GramRhs(Gm, bv, cols) ==
    Tabulate(LAMBDA i :
        ISum(Tabulate(LAMBDA k : Gm[k - 1][cols[i]] * bv[k - 1], no_of_rows)),
        Len(cols))

\* sp.linalg.solve(A, rhs) by Cramer's rule; ok is FALSE when A has no
\* inverse (LinAlgError), and for an empty system (the np.min of the empty
\* result raises ValueError)
Solve(A, rhs) ==
    LET d == Det(A)
    IN  IF Len(A) = 0 \/ d = 0 THEN [ok |-> FALSE, val |-> <<>>]
        ELSE [ok |-> TRUE,
              val |-> Tabulate(LAMBDA i :
                        Norm(Det(Tabulate(LAMBDA p : Tabulate(LAMBDA q :
                                   IF q = i THEN rhs[p] ELSE A[p][q],
                                   Len(A)), Len(A))), d),
                        Len(A))]

\* np.linalg.norm(v) ** 2
NormSq(v) == QSum(Tabulate(LAMBDA k : QMul(v[k - 1], v[k - 1]), no_of_rows))

\* mutant of AboveTolerance: norm_b taken as b @ b, without the square root
AboveToleranceOfSquare(rv, bv, t) ==
    LET bb == NormSq([k \in Rows |-> Q(bv[k])])
    IN  QLt(QMul(Norm(t[1] * t[1], t[2] * t[2]), QMul(bb, bb)), NormSq(rv))

\* np.linalg.norm(rv) > tau * norm_b, compared on the squares (both sides
\* are non-negative)
AboveTolerance(rv, bv, t) ==
    QLt(QMul(Norm(t[1] * t[1], t[2] * t[2]), NormSq([k \in Rows |-> Q(bv[k])])),
        NormSq(rv))

\* b - G[:,active_set] @ xi[active_set]
Residual(Gm, bv, act, x) ==
    Array(LAMBDA i :
        QSub(Q(bv[i]),
             QSum(Tabulate(LAMBDA k :
                     IF act[k - 1] THEN QMul(Q(Gm[i][k - 1]), x[k - 1])
                     ELSE Q(0), NoOfElements(Gm)))), no_of_rows)

\* mutant of ArgMax: np.argmin, the first index of the smallest entry
ArgMaxOfSmallest(v) ==
    CHOOSE k \in DOMAIN v :
        /\ \A j \in DOMAIN v : QLe(v[k], v[j])
        /\ \A j \in DOMAIN v : j < k => QLt(v[k], v[j])

\* np.argmax(v): the first index of the largest entry (the first nan wins)
ArgMax(v) ==
    IF \E k \in DOMAIN v : IsNaN(v[k])
    THEN CHOOSE k \in DOMAIN v :
            IsNaN(v[k]) /\ \A j \in DOMAIN v : IsNaN(v[j]) => k <= j
    ELSE CHOOSE k \in DOMAIN v :
            /\ \A j \in DOMAIN v : QLe(v[j], v[k])
            /\ \A j \in DOMAIN v : j < k => QLt(v[j], v[k])

\* np.argmin(s) of a sequence (1-based position): first smallest, first nan
ArgMin(s) ==
    IF \E k \in DOMAIN s : IsNaN(s[k])
    THEN CHOOSE k \in DOMAIN s :
            IsNaN(s[k]) /\ \A j \in DOMAIN s : IsNaN(s[j]) => k <= j
    ELSE CHOOSE k \in DOMAIN s :
            /\ \A j \in DOMAIN s : QLe(s[k], s[j])
            /\ \A j \in DOMAIN s : j < k => QLt(s[k], s[j])

\* np.min(s): nan when an entry is nan
Min(s) == s[ArgMin(s)]

(***************************************************************************)
(* sparse_nnls: state                                                      *)
(***************************************************************************)
VARIABLES
    G,           \* force contribution matrix, G[row][element]
    b,           \* force contribution vector
    tau,         \* tolerance <<numerator, denominator>>
    r,           \* residual
    xi,          \* the resulting vector
    zeta,        \* the trial vector
    active_set,  \* boolean mask over the elements
    pc,          \* position of the solver: "idle", "while", "inner",
                 \* "done" (returned), "error" (an exception left the solver)
    indices,     \* returned: np.where(xi)[0]
    xi_red       \* returned: xi[active_set]

nnls_vars == <<G, b, tau, r, xi, zeta, active_set, pc, indices, xi_red>>

(***************************************************************************)
(* the systems the solver runs for                                         *)
(***************************************************************************)
VARIABLES
    systems,     \* the system objects: systems[id] is a record of attributes
    callerV,     \* content of the array the caller passes as V
    owner,       \* the system whose reduce_mesh never returns, or 0
    last         \* the latest call of an operation: arguments and result

sys_vars == <<systems, callerV, owner, last>>

\* Python's None, and a value that is set
None == [set |-> FALSE, val |-> <<>>]

Some(v) == [set |-> TRUE, val |-> v]

\* an attribute holding a string that is not set
Unset == [set |-> FALSE, val |-> ""]

\* a slot that holds no system object
NoSystem ==
    [cls |-> "", dirichlet |-> {}, V |-> [kind |-> "none", val |-> <<>>],
     V_unconstr |-> None, weights |-> None, weight_idx |-> None,
     u_red_output |-> <<>>, M_constr |-> None, D_constr |-> None,
     assembly_type |-> Unset, no_of_elements |-> 2]

\* no operation has been called yet
NoCall ==
    [op |-> "", self |-> 0, ret |-> 0, raised |-> FALSE, had_weights |-> FALSE,
     routine |-> "", idx |-> <<>>, w |-> <<>>,
     err |-> "", u |-> <<>>, fields |-> <<>>, field_list |-> None]

(***************************************************************************)
(* the finite elements of amfe/element.py                                  *)
(***************************************************************************)
VARIABLES
    material,    \* the Material object the elements refer to
    element,     \* the element object: a record of its attributes
    elem_call,   \* the latest call on the element: arguments and result
    namespace,   \* the module amfe.element while it loads and afterwards:
                 \* the position of the load, use_fortran, and the function
                 \* each name is bound to
    kept         \* the arrays a caller keeps from the result of a call: what
                 \* each holds, and whether it is a buffer of the element

elem_vars == <<material, element, elem_call, namespace, kept>>

\* no call on an element yet
NoElemCall ==
    [op |-> "", args |-> <<>>, ret |-> <<>>, err |-> ""]

(***************************************************************************)
(* element.py: the statements that run when the module is loaded           *)
(***************************************************************************)
\* the classes in the order of their class statements (lines 155-2010), and
\* the routines among _compute_tensors and _m_int each class body defines
ClassBodies ==
    << <<"Element", {"_compute_tensors", "_m_int"}>>,
       <<"Tri3", {"_compute_tensors", "_m_int"}>>,
       <<"Tri6", {"_compute_tensors", "_m_int"}>>,
       <<"Quad4", {"_compute_tensors", "_m_int"}>>,
       <<"Quad8", {"_compute_tensors", "_m_int"}>>,
       <<"Tet4", {"_compute_tensors", "_m_int"}>>,
       <<"Tet10", {"_compute_tensors", "_m_int"}>>,
       <<"Hexa8", {"_compute_tensors", "_m_int"}>>,
       <<"Hexa20", {"_compute_tensors", "_m_int"}>>,
       <<"Prism6", {"_compute_tensors", "_m_int"}>>,
       <<"Bar2Dlumped", {"_compute_tensors", "_m_int"}>>,
       <<"BoundaryElement", {"_m_int"}>>,
       <<"Tri3Boundary", {"_compute_tensors"}>>,
       <<"Tri6Boundary", {"_compute_tensors"}>>,
       <<"Quad4Boundary", {"_compute_tensors"}>>,
       <<"Quad8Boundary", {"_compute_tensors"}>>,
       <<"LineLinearBoundary", {"_compute_tensors"}>>,
       <<"LineQuadraticBoundary", {"_compute_tensors"}>> >>

\* the routines of the class body n, as <<class, name>>
RoutinesOf(n) == {<<ClassBodies[n][1], m>> : m \in ClassBodies[n][2]}

\* the functions of the module (lines 61 and 92), as <<"", name>>
Kernels == {<<"", "scatter_matrix">>, <<"", "compute_B_matrix">>}

Routines == Kernels \cup UNION {RoutinesOf(n) : n \in 1 .. Len(ClassBodies)}

\* lines 2065-2072: the routines the Fortran wrappers are assigned to
Substituted ==
    {<<"Tri3", "_compute_tensors">>, <<"Tri6", "_compute_tensors">>,
     <<"Tri6", "_m_int">>, <<"Tet4", "_compute_tensors">>,
     <<"Tet10", "_compute_tensors">>, <<"Hexa8", "_compute_tensors">>,
     <<"Hexa20", "_compute_tensors">>, <<"Hexa20", "_m_int">>}

\* what `import amfe.f90_element` does: it succeeds, or raises because the
\* extension is missing or cannot be initialised
ImportOutcomes == {"ok", "ImportError", "RuntimeError"}

\* mutant of Caught: the handler is `except ImportError`
CaughtImportErrorOnly(exc) == exc = "ImportError"

\* line 55: `except Exception` catches the exception exc
Caught(exc) == exc \in {"ImportError", "RuntimeError"}

\* before the first statement of the module
NotLoaded ==
    [pc |-> "import", use_fortran |-> FALSE, imported |-> "", defined |-> 0,
     bound |-> [rt \in Routines |-> ""], notices |-> 0, err |-> ""]

\* the bindings f with the routines of S bound to the implementation impl
Bind(f, S, impl) == [rt \in Routines |-> IF rt \in S THEN impl ELSE f[rt]]

\* the module loaded without the extension: every routine is the Python one
LoadedPython ==
    [NotLoaded EXCEPT !.pc = "loaded", !.imported = "ImportError",
                      !.defined = Len(ClassBodies),
                      !.bound = Bind(@, Routines, "python"), !.notices = 1]

\* no element and no material exist
ElementIdle ==
    /\ material = None
    /\ element = [cls |-> ""]
    /\ elem_call = NoElemCall
    /\ namespace = NotLoaded
    /\ kept = <<>>

vars == <<G, b, tau, r, xi, zeta, active_set, pc, indices, xi_red,
          systems, callerV, owner, last, material, element, elem_call, namespace,
          kept>>

Matrices == UNION {[Rows -> [0 .. n - 1 -> Entries]] : n \in MeshSizes}
Vectors == [Rows -> Entries]

\* np.zeros(n)
Zeros(n) == [k \in 0 .. n - 1 |-> Q(0)]

\* the active elements in increasing order
ActiveSeq(act) == Ascending(LAMBDA k : act[k], Cardinality(DOMAIN act))

\* the solver's variables as one record
Solver ==
    [G |-> G, b |-> b, tau |-> tau, r |-> r, xi |-> xi, zeta |-> zeta,
     active_set |-> active_set, pc |-> pc, indices |-> indices, xi_red |-> xi_red]

\* lines 58-69: the solver's state before the first test of the while loop
SolverStart(Gm, bv, t) ==
    [G |-> Gm, b |-> bv, tau |-> t, r |-> [i \in Rows |-> Q(bv[i])],
     xi |-> Zeros(NoOfElements(Gm)), zeta |-> Zeros(NoOfElements(Gm)),
     active_set |-> [k \in Elements(Gm) |-> FALSE], pc |-> "while",
     indices |-> <<>>, xi_red |-> <<>>]

\* the solver's variables have the values of s
SolverIs(s) ==
    /\ G = s.G /\ b = s.b /\ tau = s.tau /\ r = s.r /\ xi = s.xi
    /\ zeta = s.zeta /\ active_set = s.active_set /\ pc = s.pc
    /\ indices = s.indices /\ xi_red = s.xi_red

\* the solver's variables take the values of s
SolverBecomes(s) ==
    /\ G' = s.G /\ b' = s.b /\ tau' = s.tau /\ r' = s.r /\ xi' = s.xi
    /\ zeta' = s.zeta /\ active_set' = s.active_set /\ pc' = s.pc
    /\ indices' = s.indices /\ xi_red' = s.xi_red

\* no call of the solver is followed step by step
SolverIdle ==
    [G |-> [i \in Rows |-> <<>>], b |-> [i \in Rows |-> 0], tau |-> <<0, 1>>,
     r |-> [i \in Rows |-> Q(0)], xi |-> <<>>, zeta |-> <<>>,
     active_set |-> <<>>, pc |-> "idle", indices |-> <<>>, xi_red |-> <<>>]

\* zeta after lines 77-79 (field val); ok is FALSE when the solve raises
TrialVector(Gm, bv, act) ==
    LET cols == ActiveSeq(act)
        sol == Solve(Gram(Gm, cols), GramRhs(Gm, bv, cols))
    IN  IF ~sol.ok THEN sol
        ELSE [ok |-> TRUE,
              val |-> Array(LAMBDA k :
                         IF act[k]
                         THEN sol.val[CHOOSE p \in 1 .. Len(cols) : cols[p] = k]
                         ELSE Q(0), NoOfElements(Gm))]

\* mutant of FullPositive: np.max in the place of np.min
FullPositiveOfMax(z, act) ==
    \E k \in DOMAIN act : act[k] /\ QLe(Q(0), z[k])

\* line 82: np.min(zeta[active_set]) >= 0
FullPositive(z, act) ==
    LET cols == ActiveSeq(act)
    IN  QLe(Q(0), Min(Tabulate(LAMBDA p : z[cols[p]], Len(cols))))

\* lines 71-73: the element with the largest entry of mu = G.T @ r joins the
\* active set
Entered(s) ==
    LET mu == Array(LAMBDA k :
                 QSum(Tabulate(LAMBDA i : QMul(Q(s.G[i - 1][k]), s.r[i - 1]),
                               no_of_rows)), NoOfElements(s.G))
        idx == ArgMax(mu)
    IN  [s EXCEPT !.active_set = [s.active_set EXCEPT ![idx] = TRUE],
                  !.pc = "inner"]

\* lines 77-84 and 103: the trial vector becomes xi, the inner loop is left
\* and the residual is recomputed
Accepted(s) ==
    LET z == TrialVector(s.G, s.b, s.active_set).val
    IN  [s EXCEPT !.zeta = z,
                  !.xi = z,
                  !.r = Residual(s.G, s.b, s.active_set, z),
                  !.pc = "while"]

\* lines 77-79 and 85-101: xi moves towards zeta and the element with the
\* smallest ratio leaves the active set
Removed(s) ==
    LET z == TrialVector(s.G, s.b, s.active_set).val
        mask == Ascending(LAMBDA k : QLe(z[k], Q(0)) /\ s.active_set[k],
                          NoOfElements(s.G))
        ratio == Tabulate(LAMBDA p :
                    QDiv(s.xi[mask[p]], QSub(s.xi[mask[p]], z[mask[p]])),
                    Len(mask))
        const_idx == mask[ArgMin(ratio)]
        alpha == Min(ratio)
    IN  [s EXCEPT !.zeta = z,
                  !.xi = [k \in Elements(s.G) |->
                             QAdd(s.xi[k], QMul(alpha, QSub(z[k], s.xi[k])))],
                  !.active_set = [s.active_set EXCEPT ![const_idx] = FALSE],
                  !.pc = "inner"]

\* lines 77-79: zeta[~active_set] = 0, then an exception leaves sparse_nnls
Raised(s) ==
    [s EXCEPT !.zeta = [k \in Elements(s.G) |->
                           IF s.active_set[k] THEN s.zeta[k] ELSE Q(0)],
              !.pc = "error"]

\* mutant of Returned: indices taken from the active set, np.where(active_set)
ReturnedActiveIndices(s) ==
    [s EXCEPT !.indices = ActiveSeq(s.active_set),
              !.xi_red = LET cols == ActiveSeq(s.active_set)
                         IN  Tabulate(LAMBDA p : s.xi[cols[p]], Len(cols)),
              !.pc = "done"]

\* lines 110-114: indices = np.where(xi)[0], xi_red = xi[active_set]
Returned(s) ==
    [s EXCEPT !.indices = Ascending(LAMBDA k : s.xi[k] # Q(0), NoOfElements(s.G)),
              !.xi_red = LET cols == ActiveSeq(s.active_set)
                         IN  Tabulate(LAMBDA p : s.xi[cols[p]], Len(cols)),
              !.pc = "done"]

\* lines 70-74: the loop test succeeds and an element is added
EnterLoop ==
    /\ pc = "while"
    /\ AboveTolerance(r, b, tau)
    /\ SolverBecomes(Entered(Solver))
    /\ UNCHANGED <<sys_vars, elem_vars>>

\* lines 77-84 and 103: the trial vector is full positive
AcceptTrial ==
    /\ pc = "inner"
    /\ TrialVector(G, b, active_set).ok
    /\ FullPositive(TrialVector(G, b, active_set).val, active_set)
    /\ SolverBecomes(Accepted(Solver))
    /\ UNCHANGED <<sys_vars, elem_vars>>

\* lines 77-82 and 85-101: a trial value is negative
RemoveViolating ==
    /\ pc = "inner"
    /\ TrialVector(G, b, active_set).ok
    /\ ~FullPositive(TrialVector(G, b, active_set).val, active_set)
    /\ SolverBecomes(Removed(Solver))
    /\ UNCHANGED <<sys_vars, elem_vars>>

\* lines 77-82: sp.linalg.solve raises for a singular G_red.T @ G_red; with
\* an empty active set np.min raises; the exception leaves sparse_nnls
SolveRaises ==
    /\ pc = "inner"
    /\ ~TrialVector(G, b, active_set).ok
    /\ SolverBecomes(Raised(Solver))
    /\ UNCHANGED <<sys_vars, elem_vars>>

\* lines 70 and 110-114: the loop test fails and the solver returns
Return ==
    /\ pc = "while"
    /\ ~AboveTolerance(r, b, tau)
    /\ SolverBecomes(Returned(Solver))
    /\ UNCHANGED <<sys_vars, elem_vars>>

\* a direct call sparse_nnls(G, b, tau): no system is involved
NnlsInit ==
    /\ \E Gm \in Matrices, bv \in Vectors, t \in Taus :
          SolverIs(SolverStart(Gm, bv, t))
    /\ systems = [i \in SysIds |-> NoSystem]
    /\ callerV = <<>>
    /\ owner = 0
    /\ last = NoCall
    /\ ElementIdle

NnlsNext == EnterLoop \/ AcceptTrial \/ RemoveViolating \/ SolveRaises \/ Return

SpecNnls == NnlsInit /\ [][NnlsNext]_vars

\* the step of sparse_nnls that follows the state s
Step(s) ==
    IF s.pc = "while"
    THEN IF AboveTolerance(s.r, s.b, s.tau) THEN Entered(s) ELSE Returned(s)
    ELSE LET tv == TrialVector(s.G, s.b, s.active_set)
         IN  IF ~tv.ok THEN Raised(s)
             ELSE IF FullPositive(tv.val, s.active_set) THEN Accepted(s)
                  ELSE Removed(s)

\* the steps of sparse_nnls from the state s on, up to its return ("done"),
\* its exception ("error"), or a state of the loop that has been seen
\* before ("stalled": the loop never ends)
RECURSIVE Run(_, _)
Run(s, seen) ==
    IF s.pc \in {"done", "error"} THEN s
    ELSE IF s \in seen THEN [s EXCEPT !.pc = "stalled"]
         ELSE Run(Step(s), seen \cup {s})

\* lines 18-114: a whole call of sparse_nnls
sparse_nnls(Gm, bv, t) == Run(SolverStart(Gm, bv, t), {})

(***************************************************************************)
(* ECSWSystem and reduce_mechanical_system_ecsw                            *)
(*                                                                         *)
(* The mesh, the assembly engine, the Dirichlet constraint set and the     *)
(* base classes are not part of the sources; what the operations below     *)
(* need of them is taken from the specification: unconstrain_vec inserts   *)
(* a zero row at every constrained dof, and assemble_g_and_b may return    *)
(* any G and b of the mesh's size.                                         *)
(***************************************************************************)
\* degrees of freedom of the mesh and the sets of constrained ones
Dofs == {0, 1, 2}
DirichletSets == {{0}}

\* reduction bases V, shape (N_constrained, n_red) = (2, 1), as rows
Bases == {<<<<1>>, <<c>>>> : c \in 0 .. MaxBasisEntry}

\* line 131: the tolerance of reduce_mesh, its default 0.001
MeshTaus == {<<1, 1000>>}

\* a Rayleigh damping matrix of an unreduced system, shape (2, 2)
Damping == <<<<2, 1>>, <<1, 2>>>>

\* a cached constrained mass matrix
Mass == <<<<1, 0>>, <<0, 1>>>>

AssemblyArgs == {"direct", "indirect", "lumped"}

\* what assemble_g_and_b may hand to the solver for a mesh of n elements:
\* a problem with the solution (1, 1), one whose solution leaves an active
\* element at weight zero, one the solver never finishes, one it raises on
AssembledProblems ==
    {p \in { <<[i \in Rows |-> [k \in 0 .. 1 |-> IF i = k THEN 1 ELSE 0]],
               [i \in Rows |-> 1]>>,
             <<[i \in Rows |-> [k \in 0 .. 1 |-> IF i = 1 /\ k = 1 THEN 0 ELSE 1]],
               [i \in Rows |-> 1 - i]>>,
             <<[i \in Rows |-> [k \in 0 .. 1 |-> i - 1]],
               [i \in Rows |-> 0 - 1]>>,
             <<[i \in Rows |-> [k \in 0 .. 1 |-> 0 - 1]],
               [i \in Rows |-> i]>> } :
        NoOfElements(p[1]) \in MeshSizes}

\* dirichlet_class.unconstrain_vec(V): V with a zero row inserted at every
\* constrained dof
UnconstrainVec(dirichlet, V) ==
    Tabulate(LAMBDA p :
        IF (p - 1) \in dirichlet
        THEN Tabulate(LAMBDA c : 0, Len(V[1]))
        ELSE V[Cardinality({d \in Dofs : d < p /\ d \notin dirichlet})],
        Cardinality(Dofs))

\* the content of system s's array V
BasisOf(s) == IF s.V.kind = "caller" THEN callerV ELSE s.V.val

\* mutant of BasisCopy: the caller's array itself is stored
BasisAlias(V) == [kind |-> "caller", val |-> <<>>]

\* line 282: V.copy(), an array of the system's own
BasisCopy(V) == [kind |-> "own", val |-> V]

\* copy.deepcopy(s): every array of the copy is its own
DeepCopy(s) == [s EXCEPT !.V = IF s.V.kind = "none" THEN s.V ELSE BasisCopy(BasisOf(s))]

\* the smallest free slot for a new object, 0 when there is none
FreshId ==
    IF \E j \in SysIds : systems[j].cls = ""
    THEN CHOOSE j \in SysIds :
            systems[j].cls = "" /\ \A k \in SysIds : systems[k].cls = "" => j <= k
    ELSE 0

\* mutant of ReducedSys: the system is overwritten whatever the flag says
ReducedSysInPlace(i, overwrite) == i

\* mutant of ReducedSys: a copy is made whatever the flag says
ReducedSysCopied(i, overwrite) == FreshId

\* lines 277-280: the object reduced_sys names
ReducedSys(i, overwrite) == IF overwrite THEN i ELSE FreshId

\* V.T @ D @ V
Project(V, D) ==
    Tabulate(LAMBDA a : Tabulate(LAMBDA c :
        ISum(Tabulate(LAMBDA p :
            ISum(Tabulate(LAMBDA q : V[p][a] * D[p][q] * V[q][c], Len(V))),
            Len(V))), Len(V[1])), Len(V[1]))

\* line 290 raises when the shapes of V and D_constr do not match
ProjectRaises(s, V) == s.D_constr.set /\ Len(s.D_constr.val) # Len(V)

\* mutant of Cleared: the weights of an earlier mesh reduction are kept
ClearedKeepingWeights(s, V) ==
    [s EXCEPT !.cls = "ECSWSystem",
              !.V = BasisCopy(V),
              !.V_unconstr = Some(UnconstrainVec(s.dirichlet, V)),
              !.u_red_output = <<>>,
              !.M_constr = None]

\* lines 281-287: the attributes set before the damping matrix is projected
Cleared(s, V) ==
    [s EXCEPT !.cls = "ECSWSystem",
              !.V = BasisCopy(V),
              !.V_unconstr = Some(UnconstrainVec(s.dirichlet, V)),
              !.weights = None,
              !.weight_idx = None,
              !.u_red_output = <<>>,
              !.M_constr = None]

\* lines 281-291: reduced_sys when the function returns
HyperReduced(s, V, assembly) ==
    [Cleared(s, V) EXCEPT
        !.D_constr = IF s.D_constr.set THEN Some(Project(V, s.D_constr.val))
                     ELSE None,
        !.assembly_type = Some(assembly)]

\* lines 277-294: reduce_mechanical_system_ecsw(systems[i], V, overwrite,
\* assembly) returns
reduce_mechanical_system_ecsw(i, overwrite, assembly) ==
    /\ owner = 0
    /\ systems[i].cls # ""
    /\ LET j == ReducedSys(i, overwrite)
           copy == IF j = i THEN systems[i] ELSE DeepCopy(systems[i])
       IN  /\ j # 0
           /\ ~ProjectRaises(copy, callerV)
           /\ systems' = [systems EXCEPT ![j] = HyperReduced(copy, callerV, assembly)]
           /\ last' = [NoCall EXCEPT !.op = "reduce_mechanical_system_ecsw",
                                     !.self = i, !.ret = j,
                                     !.had_weights = systems[i].weights.set]
    /\ UNCHANGED <<callerV, owner>>
    /\ UNCHANGED <<nnls_vars, elem_vars>>

\* lines 277-290: the projection of the damping matrix raises; the attributes
\* set before stay set, a copy is dropped
reduce_mechanical_system_ecsw_raises(i, overwrite, assembly) ==
    /\ owner = 0
    /\ systems[i].cls # ""
    /\ LET j == ReducedSys(i, overwrite)
           copy == IF j = i THEN systems[i] ELSE DeepCopy(systems[i])
       IN  /\ j # 0
           /\ ProjectRaises(copy, callerV)
           /\ systems' = IF j = i
                         THEN [systems EXCEPT ![j] = Cleared(copy, callerV)]
                         ELSE systems
           /\ last' = [NoCall EXCEPT !.op = "reduce_mechanical_system_ecsw",
                                     !.self = i, !.raised = TRUE,
                                     !.had_weights = systems[i].weights.set]
    /\ UNCHANGED <<callerV, owner>>
    /\ UNCHANGED <<nnls_vars, elem_vars>>

\* lines 160-168: what the call of sparse_nnls in reduce_mesh ends with, for
\* every G and b that assemble_g_and_b may hand it
SolverOutcomes ==
    {sparse_nnls(p[1], p[2], t) : p \in AssembledProblems, t \in MeshTaus}

\* the outcomes for the mesh of system s
OutcomesFor(s) == {o \in SolverOutcomes : NoOfElements(o.G) = s.no_of_elements}

\* mutant of reduce_mesh: the results are returned but the weights are not
\* saved in the system
reduce_mesh_unsaved(i) ==
    /\ owner = 0
    /\ systems[i].cls = "ECSWSystem"
    /\ \E o \in OutcomesFor(systems[i]) :
          /\ o.pc = "done"
          /\ systems' = [systems EXCEPT ![i].weight_idx = Some(o.indices)]
          /\ last' = [NoCall EXCEPT !.op = "reduce_mesh", !.self = i,
                                    !.idx = o.indices, !.w = o.xi_red]
    /\ UNCHANGED <<callerV, owner>>
    /\ UNCHANGED <<nnls_vars, elem_vars>>

\* lines 158-176: sparse_nnls returns; reduce_mesh stores and returns the
\* indices and the weights
reduce_mesh(i) ==
    /\ owner = 0
    /\ systems[i].cls = "ECSWSystem"
    /\ \E o \in OutcomesFor(systems[i]) :
          /\ o.pc = "done"
          /\ systems' = [systems EXCEPT ![i].weight_idx = Some(o.indices),
                                        ![i].weights = Some(o.xi_red)]
          /\ last' = [NoCall EXCEPT !.op = "reduce_mesh", !.self = i,
                                    !.idx = o.indices, !.w = o.xi_red]
    /\ UNCHANGED <<callerV, owner>>
    /\ UNCHANGED <<nnls_vars, elem_vars>>

\* lines 158-168: the exception of sparse_nnls leaves reduce_mesh
reduce_mesh_raises(i) ==
    /\ owner = 0
    /\ systems[i].cls = "ECSWSystem"
    /\ \E o \in OutcomesFor(systems[i]) : o.pc = "error"
    /\ last' = [NoCall EXCEPT !.op = "reduce_mesh", !.self = i, !.raised = TRUE]
    /\ UNCHANGED <<systems, callerV, owner>>
    /\ UNCHANGED <<nnls_vars, elem_vars>>

\* lines 158-168: sparse_nnls never returns, and neither does reduce_mesh
reduce_mesh_hangs(i) ==
    /\ owner = 0
    /\ systems[i].cls = "ECSWSystem"
    /\ \E o \in OutcomesFor(systems[i]) : o.pc = "stalled"
    /\ owner' = i
    /\ last' = [NoCall EXCEPT !.op = "reduce_mesh", !.self = i]
    /\ UNCHANGED <<systems, callerV>>
    /\ UNCHANGED <<nnls_vars, elem_vars>>

\* mutant of HyperAssembly: every strategy but 'direct' is taken as 'indirect'
HyperAssemblyLenient(assembly_type) ==
    IF assembly_type = Some("direct") THEN "assemble_k_and_f_hyper"
    ELSE "assemble_k_and_f_hyper_no_inplace"

\* lines 182-190: the assembly routine an accessor calls, "" when it raises
\* ValueError
HyperAssembly(assembly_type) ==
    IF assembly_type = Some("direct") THEN "assemble_k_and_f_hyper"
    ELSE IF assembly_type = Some("indirect")
         THEN "assemble_k_and_f_hyper_no_inplace"
         ELSE ""

\* the argument u of a call: not given, or given as None or as a vector
NoArg == [given |-> FALSE, val |-> None]

Arg(v) == [given |-> TRUE, val |-> v]

\* entries of the displacement vectors a caller passes
DisplacementEntries == {0, 1}

\* the number of columns of V, self.V.shape[1] (0 for a system without V)
ReducedDim(s) == IF s.V.kind = "none" THEN 0 ELSE Len(BasisOf(s)[1])

\* what a caller may pass as u to an accessor of system s
Displacements(s) ==
    {NoArg, Arg(None)} \cup
    {Arg(Some(Tabulate(LAMBDA c : e, ReducedDim(s)))) : e \in DisplacementEntries}

\* lines 178, 193, 208: the signature gives u the default None
HasDefaultU(name) == name \in {"K_and_f", "K"}

\* lines 179-180: u = np.zeros(self.V.shape[1])
DefaultU(s) == Tabulate(LAMBDA c : 0, ReducedDim(s))

\* lines 178-190: a call of an accessor with the argument arg: the exception
\* it ends with ("" when it returns), the assembly routine it calls and the
\* displacement it hands to it
AccessorCall(name, s, arg) ==
    IF ~arg.given /\ ~HasDefaultU(name)
    THEN [err |-> "TypeError", routine |-> "", u |-> <<>>]
    ELSE IF HyperAssembly(s.assembly_type) = ""
         THEN [err |-> "ValueError", routine |-> "", u |-> <<>>]
         ELSE [err |-> "",
               routine |-> HyperAssembly(s.assembly_type),
               u |-> IF arg.given /\ arg.val.set THEN arg.val.val ELSE DefaultU(s)]

Accessor(name, i, arg) ==
    /\ owner = 0
    /\ systems[i].cls = "ECSWSystem"
    /\ LET call == AccessorCall(name, systems[i], arg)
       IN  last' = [NoCall EXCEPT !.op = name, !.self = i,
                                  !.routine = call.routine,
                                  !.raised = (call.err # ""),
                                  !.err = call.err,
                                  !.u = call.u]
    /\ UNCHANGED <<systems, callerV, owner>>
    /\ UNCHANGED <<nnls_vars, elem_vars>>

\* lines 178-191
K_and_f(i, arg) == Accessor("K_and_f", i, arg)

\* lines 193-206
K(i, arg) == Accessor("K", i, arg)

\* lines 208-221
f_int(i, arg) == Accessor("f_int", i, arg)

\* line 240 raises: the weights are unset, or the two arrays differ in
\* length and the weights cannot be broadcast
ExportRaises(s) ==
    \/ ~s.weights.set
    \/ /\ Len(s.weights.val) # Len(s.weight_idx.val)
       /\ Len(s.weights.val) # 1

\* lines 239-240: the weight field of the mesh
WeightField(s) ==
    LET idx == s.weight_idx.val
        w == s.weights.val
    IN  Array(LAMBDA k :
            IF \E p \in 1 .. Len(idx) : idx[p] = k
            THEN LET p == CHOOSE p \in 1 .. Len(idx) :
                            idx[p] = k /\ \A q \in 1 .. Len(idx) : idx[q] = k => q <= p
                 IN  IF Len(w) = Len(idx) THEN w[p] ELSE w[1]
            ELSE Q(0), s.no_of_elements)

\* a field of the export: the array and the name of its h5 dictionary
Field(name, data) == [name |-> name, data |-> data]

\* the lists of fields a caller passes as field_list
FieldLists ==
    {None, Some(<<>>),
     Some(<<Field("displacement", [k \in 0 .. 1 |-> Q(1)])>>),
     Some(<<Field("displacement", [k \in 0 .. 1 |-> Q(1)]),
            Field("stress", [k \in 0 .. 1 |-> Q(2)])>>)}

\* lines 226-229: new_field_list is an empty list or a copy of field_list
NewFieldList(field_list) ==
    IF ~field_list.set THEN [items |-> <<>>, shared |-> FALSE]
    ELSE [items |-> field_list.val, shared |-> FALSE]

\* lines 232-242: the h5 dictionary is named weights_hyper_red
Appended(new_field_list, s) ==
    [new_field_list EXCEPT
        !.items = Append(@, Field("weights_hyper_red", WeightField(s)))]

\* lines 223-245; last.fields is the list handed to
\* ReducedSystem.export_paraview, last.field_list the caller's list afterwards
export_paraview(i, field_list) ==
    /\ owner = 0
    /\ systems[i].cls = "ECSWSystem"
    /\ LET raises == ExportRaises(systems[i])
           handed == Appended(NewFieldList(field_list), systems[i])
       IN  last' = [NoCall EXCEPT
                       !.op = "export_paraview", !.self = i,
                       !.raised = raises,
                       !.err = IF ~raises THEN ""
                               ELSE IF systems[i].weights.set THEN "ValueError"
                                    ELSE "TypeError",
                       !.w = IF raises THEN <<>> ELSE WeightField(systems[i]),
                       !.fields = IF raises THEN <<>> ELSE handed.items,
                       !.field_list = IF ~raises /\ handed.shared
                                      THEN Some(handed.items) ELSE field_list]
    /\ UNCHANGED <<systems, callerV, owner>>
    /\ UNCHANGED <<nnls_vars, elem_vars>>

\* the caller writes other values into the array it has passed as V
caller_writes_V ==
    /\ owner = 0
    /\ \E V \in Bases : V # callerV /\ callerV' = V
    /\ last' = [NoCall EXCEPT !.op = "caller_writes_V"]
    /\ UNCHANGED <<systems, owner>>
    /\ UNCHANGED <<nnls_vars, elem_vars>>

\* a mechanical system that has not been reduced, and an array V of the caller
SysInit ==
    /\ SolverIs(SolverIdle)
    /\ \E dir \in DirichletSets, d \in {None, Some(Damping)}, m \in {None, Some(Mass)} :
          systems = [i \in SysIds |->
                        IF i = 1
                        THEN [NoSystem EXCEPT !.cls = "MechanicalSystem",
                                              !.dirichlet = dir,
                                              !.D_constr = d,
                                              !.M_constr = m,
                                              !.u_red_output = <<"u">>]
                        ELSE NoSystem]
    /\ callerV \in Bases
    /\ owner = 0
    /\ last = NoCall
    /\ ElementIdle

SysNext ==
    \/ \E i \in SysIds, ow \in BOOLEAN, a \in AssemblyArgs :
          reduce_mechanical_system_ecsw(i, ow, a)
    \/ \E i \in SysIds, ow \in BOOLEAN, a \in AssemblyArgs :
          reduce_mechanical_system_ecsw_raises(i, ow, a)
    \/ \E i \in SysIds : reduce_mesh(i)
    \/ \E i \in SysIds : reduce_mesh_raises(i)
    \/ \E i \in SysIds : reduce_mesh_hangs(i)
    \/ \E i \in SysIds : K_and_f(i, Arg(None))
    \/ \E i \in SysIds : K(i, Arg(None))
    \/ \E i \in SysIds : f_int(i, Arg(None))
    \/ \E i \in SysIds : export_paraview(i, None)
    \/ caller_writes_V

Spec == SysInit /\ [][SysNext]_vars

\* the life of one system object that is reduced in place: every argument
\* of its accessors is followed
ObjectNext ==
    \/ \E a \in AssemblyArgs : reduce_mechanical_system_ecsw(1, TRUE, a)
    \/ \E a \in AssemblyArgs : reduce_mechanical_system_ecsw_raises(1, TRUE, a)
    \/ reduce_mesh(1)
    \/ reduce_mesh_raises(1)
    \/ reduce_mesh_hangs(1)
    \/ \E arg \in Displacements(systems[1]) : K_and_f(1, arg)
    \/ \E arg \in Displacements(systems[1]) : K(1, arg)
    \/ \E arg \in Displacements(systems[1]) : f_int(1, arg)
    \/ \E field_list \in FieldLists : export_paraview(1, field_list)
    \/ caller_writes_V

SpecObject == SysInit /\ [][ObjectNext]_vars

(***************************************************************************)
(* element.py: arrays.  A matrix is the sequence of its rows, a vector a   *)
(* sequence; position p of a sequence is index p - 1 of the source.        *)
(***************************************************************************)
\* np.zeros(n) and np.zeros((m, n))
ZeroVec(n) == Tabulate(LAMBDA c : Q(0), n)

ZeroMat(m, n) == Tabulate(LAMBDA i : ZeroVec(n), m)

\* np.eye(n)
Eye(n) == Tabulate(LAMBDA i : Tabulate(LAMBDA j : IF i = j THEN Q(1) ELSE Q(0), n), n)

\* an array of integers as an array of floats
FloatVec(v) == Tabulate(LAMBDA c : Q(v[c]), Len(v))

\* v.reshape((-1, n))
Reshape(v, n) ==
    Tabulate(LAMBDA i : Tabulate(LAMBDA j : v[(i - 1) * n + j], n), Len(v) \div n)

NoOfCols(A) == IF Len(A) = 0 THEN 0 ELSE Len(A[1])

\* A.T
Transpose(A) ==
    Tabulate(LAMBDA j : Tabulate(LAMBDA i : A[i][j], Len(A)), NoOfCols(A))

\* v @ w
Dot(v, w) == QSum(Tabulate(LAMBDA k : QMul(v[k], w[k]), Len(v)))

\* A @ B
MatMul(A, B) ==
    LET Bt == Transpose(B)
    IN  Tabulate(LAMBDA i : Tabulate(LAMBDA j : Dot(A[i], Bt[j]), Len(Bt)), Len(A))

\* A @ v
MatVec(A, v) == Tabulate(LAMBDA i : Dot(A[i], v), Len(A))

\* A + B, A * x and v + w, v * x
MatAdd(A, B) ==
    Tabulate(LAMBDA i : Tabulate(LAMBDA j : QAdd(A[i][j], B[i][j]), Len(A[i])), Len(A))

MatScale(A, x) ==
    Tabulate(LAMBDA i : Tabulate(LAMBDA j : QMul(A[i][j], x), Len(A[i])), Len(A))

VecAdd(v, w) == Tabulate(LAMBDA k : QAdd(v[k], w[k]), Len(v))

VecScale(v, x) == Tabulate(LAMBDA k : QMul(v[k], x), Len(v))

\* f_mat.flatten()
Flatten(A) ==
    Tabulate(LAMBDA p : A[((p - 1) \div NoOfCols(A)) + 1][((p - 1) % NoOfCols(A)) + 1],
             Len(A) * NoOfCols(A))

\* np.outer(v, w)
Outer(v, w) == Tabulate(LAMBDA i : Tabulate(LAMBDA j : QMul(v[i], w[j]), Len(w)), Len(v))

\* every entry of the matrix, or of the vector, is zero
IsZeroMat(A) == \A i \in 1 .. Len(A) : \A j \in 1 .. Len(A[i]) : A[i][j] = Q(0)

IsZeroVec(v) == \A k \in 1 .. Len(v) : v[k] = Q(0)

\* the root of a square number
ISqrt(n) == CHOOSE k \in 0 .. n : k * k = n

\* np.sqrt of a float whose numerator and denominator are squares
QSqrt(x) ==
    IF x[2] = 0 THEN (IF x[1] = 1 THEN x ELSE NaN)
    ELSE IF x[1] < 0 THEN NaN
         ELSE <<ISqrt(x[1]), ISqrt(x[2])>>

(***************************************************************************)
(* element.py: scatter_matrix and compute_B_matrix                         *)
(***************************************************************************)
\* mutant of scatter_matrix: np.kron(Mat, ones((ndim, ndim))), every entry
\* of a block holds Mat[i,j]
scatter_matrix_dense(Mat, ndim) ==
    Tabulate(LAMBDA row : Tabulate(LAMBDA c :
                 Mat[((row - 1) \div ndim) + 1][((c - 1) \div ndim) + 1],
             NoOfCols(Mat) * ndim), Len(Mat) * ndim)

\* lines 85-88: the n-th pass of the innermost loop body, for the loop
\* indices i, j, k that n stands for
RECURSIVE ScatterLoop(_, _, _, _)
ScatterLoop(Mat, ndim, Mat_scattered, n) ==
    LET dof_small_col == NoOfCols(Mat)
        i == n \div (dof_small_col * ndim)
        j == (n \div ndim) % dof_small_col
        k == n % ndim
    IN  IF Len(Mat_scattered) = 0 \/ n = Len(Mat) * dof_small_col * ndim
        THEN Mat_scattered
        ELSE ScatterLoop(Mat, ndim,
                 [Mat_scattered EXCEPT ![ndim * i + k + 1][ndim * j + k + 1] =
                                           Mat[i + 1][j + 1]],
                 n + 1)

\* lines 61-89
scatter_matrix(Mat, ndim) ==
    ScatterLoop(Mat, ndim, ZeroMat(Len(Mat) * ndim, NoOfCols(Mat) * ndim), 0)

\* lines 132-135 and 137-146: the block of node i (a row of B_tilde)
BBlock(bi, F) ==
    IF Len(bi) = 2
    THEN << <<QMul(F[1][1], bi[1]), QMul(F[2][1], bi[1])>>,
            <<QMul(F[1][2], bi[2]), QMul(F[2][2], bi[2])>>,
            <<QAdd(QMul(F[1][1], bi[2]), QMul(F[1][2], bi[1])),
              QAdd(QMul(F[2][1], bi[2]), QMul(F[2][2], bi[1]))>> >>
    ELSE << <<QMul(F[1][1], bi[1]), QMul(F[2][1], bi[1]), QMul(F[3][1], bi[1])>>,
            <<QMul(F[1][2], bi[2]), QMul(F[2][2], bi[2]), QMul(F[3][2], bi[2])>>,
            <<QMul(F[1][3], bi[3]), QMul(F[2][3], bi[3]), QMul(F[3][3], bi[3])>>,
            <<QAdd(QMul(F[1][2], bi[3]), QMul(F[1][3], bi[2])),
              QAdd(QMul(F[2][2], bi[3]), QMul(F[2][3], bi[2])),
              QAdd(QMul(F[3][2], bi[3]), QMul(F[3][3], bi[2]))>>,
            <<QAdd(QMul(F[1][3], bi[1]), QMul(F[1][1], bi[3])),
              QAdd(QMul(F[2][3], bi[1]), QMul(F[2][1], bi[3])),
              QAdd(QMul(F[3][3], bi[1]), QMul(F[3][1], bi[3]))>>,
            <<QAdd(QMul(F[1][1], bi[2]), QMul(F[1][2], bi[1])),
              QAdd(QMul(F[2][1], bi[2]), QMul(F[2][2], bi[1])),
              QAdd(QMul(F[3][1], bi[2]), QMul(F[3][2], bi[1]))>> >>

\* lines 92-147
compute_B_matrix(B_tilde, F) ==
    LET no_of_nodes == Len(B_tilde)
        no_of_dims == NoOfCols(B_tilde)
        blocks == Tabulate(LAMBDA i : BBlock(B_tilde[i], F), no_of_nodes)
    IN  Tabulate(LAMBDA row : Tabulate(LAMBDA c :
                     blocks[((c - 1) \div no_of_dims) + 1][row][((c - 1) % no_of_dims) + 1],
                 no_of_nodes * no_of_dims),
             (no_of_dims * (no_of_dims + 1)) \div 2)

(***************************************************************************)
(* the Material the elements refer to: a St. Venant-Kirchhoff law          *)
(***************************************************************************)
\* the parameters of the materials: Young's modulus E, Poisson's ratio nu,
\* density rho, thickness (plane elements), cross-section crossec (bars)
Materials ==
    {[E |-> Q(2), nu |-> <<1, 3>>, rho |-> Q(3), thickness |-> Q(2),
      crossec |-> Q(1)]}

\* the tangent of the plane-stress law and of the three-dimensional law
C_SE_2d(mat) ==
    LET c == QDiv(mat.E, QSub(Q(1), QMul(mat.nu, mat.nu)))
    IN  << <<c, QMul(c, mat.nu), Q(0)>>,
           <<QMul(c, mat.nu), c, Q(0)>>,
           <<Q(0), Q(0), QMul(c, QDiv(QSub(Q(1), mat.nu), Q(2)))>> >>

C_SE_3d(mat) ==
    LET mu == QDiv(mat.E, QMul(Q(2), QAdd(Q(1), mat.nu)))
        lam == QDiv(QMul(mat.nu, mat.E),
                    QMul(QAdd(Q(1), mat.nu), QSub(Q(1), QMul(Q(2), mat.nu))))
        d == QAdd(lam, QMul(Q(2), mu))
        o == Q(0)
    IN  << <<d, lam, lam, o, o, o>>, <<lam, d, lam, o, o, o>>,
           <<lam, lam, d, o, o, o>>, <<o, o, o, mu, o, o>>,
           <<o, o, o, o, mu, o>>, <<o, o, o, o, o, mu>> >>

\* the stress tensor S of the Voigt vector S_v, in the plane and in space
Law2d(C_SE, S_v) ==
    [S |-> << <<S_v[1], S_v[3]>>, <<S_v[3], S_v[2]>> >>,
     S_v |-> S_v, C_SE |-> C_SE]

Law3d(C_SE, S_v) ==
    [S |-> << <<S_v[1], S_v[6], S_v[5]>>, <<S_v[6], S_v[2], S_v[4]>>,
              <<S_v[5], S_v[4], S_v[3]>> >>,
     S_v |-> S_v, C_SE |-> C_SE]

\* material.S_Sv_and_C_2d(E): the stress tensor S, its Voigt vector S_v and
\* the tangent C_SE for the strain tensor E
S_Sv_and_C_2d(mat, E) ==
    Law2d(C_SE_2d(mat),
          MatVec(C_SE_2d(mat), <<E[1][1], E[2][2], QMul(Q(2), E[1][2])>>))

\* material.S_Sv_and_C(E)
S_Sv_and_C(mat, E) ==
    Law3d(C_SE_3d(mat),
          MatVec(C_SE_3d(mat), <<E[1][1], E[2][2], E[3][3], QMul(Q(2), E[2][3]),
                                 QMul(Q(2), E[1][3]), QMul(Q(2), E[1][2])>>))

(***************************************************************************)
(* element.py: the tensors of the plane and solid elements                 *)
(***************************************************************************)
\* F = H + np.eye(n)
DeformationGradient(H) == MatAdd(H, Eye(Len(H)))

\* E = 1/2*(H + H.T + H.T @ H)
GreenLagrange(H) ==
    MatScale(MatAdd(MatAdd(H, Transpose(H)), MatMul(Transpose(H), H)), <<1, 2>>)

\* the row (T11, T12, T13, T22, T23, T33) of a symmetric tensor; the plane
\* elements leave the entries of the third direction zero
TensorRow(T) ==
    IF Len(T) = 2
    THEN <<T[1][1], T[1][2], Q(0), T[2][2], Q(0), Q(0)>>
    ELSE <<T[1][1], T[1][2], T[1][3], T[2][2], T[2][3], T[3][3]>>

\* what one integration point adds for F, E, the material law at E and
\* B0 = compute_B_matrix(B0_tilde, F): the stiffness (K_geo + K_mat), the
\* force B0.T @ S_v and the rows of stress and strain, scaled by scale (det,
\* thickness and integration weight)
PointOfLaw(B0_tilde, scale, F, E, law, B0) ==
    [F |-> F,
     E |-> E,
     K |-> MatAdd(scatter_matrix(
                      MatScale(MatMul(MatMul(B0_tilde, law.S), Transpose(B0_tilde)),
                               scale),
                      NoOfCols(B0_tilde)),
                  MatScale(MatMul(MatMul(Transpose(B0), law.C_SE), B0), scale)),
     f |-> VecScale(MatVec(Transpose(B0), law.S_v), scale),
     E_row |-> TensorRow(E),
     S_row |-> TensorRow(law.S)]

\* the same for the deformation gradient F and the strain E
PointOfStrain(mat, B0_tilde, scale, F, E) ==
    PointOfLaw(B0_tilde, scale, F, E,
               IF NoOfCols(B0_tilde) = 2 THEN S_Sv_and_C_2d(mat, E)
               ELSE S_Sv_and_C(mat, E),
               compute_B_matrix(B0_tilde, F))

\* the same for the displacement gradient H
PointOfGradient(mat, B0_tilde, scale, H) ==
    PointOfStrain(mat, B0_tilde, scale, DeformationGradient(H), GreenLagrange(H))

\* mutant of PointTensors: the sum of H = u_mat.T @ B0_tilde leaves out the
\* first node (an index off by one)
PointTensorsSkippingNode(mat, B0_tilde, u_mat, scale) ==
    PointOfGradient(mat, B0_tilde, scale,
                    MatMul(Transpose(u_mat),
                           [B0_tilde EXCEPT ![1] = ZeroVec(Len(B0_tilde[1]))]))

\* what one integration point adds for the nodal displacements u_mat
PointTensors(mat, B0_tilde, u_mat, scale) ==
    PointOfGradient(mat, B0_tilde, scale, MatMul(Transpose(u_mat), B0_tilde))

\* np.ones((n, 1)) @ np.array([row])
Rows_of(row, n) == Tabulate(LAMBDA i : row, n)

\* the buffers of an element with the one integration point pt and
\* no_of_nodes nodes
PointBuffers(pt, no_of_nodes) ==
    [K |-> pt.K, f |-> pt.f, E |-> Rows_of(pt.E_row, no_of_nodes),
     S |-> Rows_of(pt.S_row, no_of_nodes), F |-> <<pt.F>>, E_gp |-> <<pt.E>>]

\* lines 415-433: Tri3._compute_tensors; the buffers are assigned anew
Tri3Tensors(mat, X, u) ==
    LET det == (X[5] - X[3]) * (X[2] - X[4]) - (X[1] - X[3]) * (X[6] - X[4])
        inv == QDiv(Q(1), Q(det))
        dN_dX == MatScale(<< <<Q(X[4] - X[6]), Q(X[5] - X[3])>>,
                            <<Q(X[6] - X[2]), Q(X[1] - X[5])>>,
                            <<Q(X[2] - X[4]), Q(X[3] - X[1])>> >>, inv)
    IN  PointBuffers(PointTensors(mat, dN_dX, Reshape(FloatVec(u), 2),
                                  QMul(QDiv(Q(det), Q(2)), mat.thickness)),
                     3)

\* lines 863-899: Tet4._compute_tensors; the buffers are assigned anew
Tet4Tensors(mat, X, u) ==
    LET X1 == X[1]    Y1 == X[2]    Z1 == X[3]
        X2 == X[4]    Y2 == X[5]    Z2 == X[6]
        X3 == X[7]    Y3 == X[8]    Z3 == X[9]
        X4 == X[10]   Y4 == X[11]   Z4 == X[12]
        det == 0 - X1*Y2*Z3 + X1*Y2*Z4 + X1*Y3*Z2 - X1*Y3*Z4 - X1*Y4*Z2 + X1*Y4*Z3
                 + X2*Y1*Z3 - X2*Y1*Z4 - X2*Y3*Z1 + X2*Y3*Z4 + X2*Y4*Z1 - X2*Y4*Z3
                 - X3*Y1*Z2 + X3*Y1*Z4 + X3*Y2*Z1 - X3*Y2*Z4 - X3*Y4*Z1 + X3*Y4*Z2
                 + X4*Y1*Z2 - X4*Y1*Z3 - X4*Y2*Z1 + X4*Y2*Z3 + X4*Y3*Z1 - X4*Y3*Z2
        inv == QDiv(Q(1), Q(det))
        B0_tilde == MatScale(
            << <<Q(0 - Y2*Z3 + Y2*Z4 + Y3*Z2 - Y3*Z4 - Y4*Z2 + Y4*Z3),
                 Q(X2*Z3 - X2*Z4 - X3*Z2 + X3*Z4 + X4*Z2 - X4*Z3),
                 Q(0 - X2*Y3 + X2*Y4 + X3*Y2 - X3*Y4 - X4*Y2 + X4*Y3)>>,
               <<Q(Y1*Z3 - Y1*Z4 - Y3*Z1 + Y3*Z4 + Y4*Z1 - Y4*Z3),
                 Q(0 - X1*Z3 + X1*Z4 + X3*Z1 - X3*Z4 - X4*Z1 + X4*Z3),
                 Q(X1*Y3 - X1*Y4 - X3*Y1 + X3*Y4 + X4*Y1 - X4*Y3)>>,
               <<Q(0 - Y1*Z2 + Y1*Z4 + Y2*Z1 - Y2*Z4 - Y4*Z1 + Y4*Z2),
                 Q(X1*Z2 - X1*Z4 - X2*Z1 + X2*Z4 + X4*Z1 - X4*Z2),
                 Q(0 - X1*Y2 + X1*Y4 + X2*Y1 - X2*Y4 - X4*Y1 + X4*Y2)>>,
               <<Q(Y1*Z2 - Y1*Z3 - Y2*Z1 + Y2*Z3 + Y3*Z1 - Y3*Z2),
                 Q(0 - X1*Z2 + X1*Z3 + X2*Z1 - X2*Z3 - X3*Z1 + X3*Z2),
                 Q(X1*Y2 - X1*Y3 - X2*Y1 + X2*Y3 + X3*Y1 - X3*Y2)>> >>, inv)
    IN  PointBuffers(PointTensors(mat, B0_tilde, Reshape(FloatVec(u), 3),
                                  QDiv(Q(det), Q(6))),
                     4)

\* lines 488-490 and 492-495: integration points (L1, L2, L3, w) of Tri6 and
\* the columns of its extrapolation_points
Tri6GaussPoints ==
    << << <<2, 3>>, <<1, 6>>, <<1, 6>>, <<1, 3>> >>,
       << <<1, 6>>, <<2, 3>>, <<1, 6>>, <<1, 3>> >>,
       << <<1, 6>>, <<1, 6>>, <<2, 3>>, <<1, 3>> >> >>

Tri6Extrapolation ==
    << << <<5, 3>>, <<0 - 1, 3>>, <<0 - 1, 3>>, <<2, 3>>, <<0 - 1, 3>>, <<2, 3>> >>,
       << <<0 - 1, 3>>, <<5, 3>>, <<0 - 1, 3>>, <<2, 3>>, <<2, 3>>, <<0 - 1, 3>> >>,
       << <<0 - 1, 3>>, <<0 - 1, 3>>, <<5, 3>>, <<0 - 1, 3>>, <<2, 3>>, <<2, 3>> >> >>

\* lines 551-556: det and B0_tilde for dN_dL, the entries of the Jacobian
\* and det
Tri6GradientOfDet(dN_dL, Jx1, Jx2, Jx3, Jy1, Jy2, Jy3, det) ==
    [det |-> det,
     B0_tilde |-> MatMul(dN_dL,
                         MatScale(<< <<QSub(Jy2, Jy3), QSub(Jx3, Jx2)>>,
                                     <<QSub(Jy3, Jy1), QSub(Jx1, Jx3)>>,
                                     <<QSub(Jy1, Jy2), QSub(Jx2, Jx1)>> >>,
                                  QDiv(Q(1), det)))]

\* line 551: det of the Jacobian
Tri6GradientOfJacobian(dN_dL, Jx1, Jx2, Jx3, Jy1, Jy2, Jy3) ==
    Tri6GradientOfDet(dN_dL, Jx1, Jx2, Jx3, Jy1, Jy2, Jy3,
        QSum(<<QMul(Jx1, Jy2), QNeg(QMul(Jx1, Jy3)), QNeg(QMul(Jx2, Jy1)),
               QMul(Jx2, Jy3), QMul(Jx3, Jy1), QNeg(QMul(Jx3, Jy2))>>))

\* lines 538-550: dN_dL and the entries of the Jacobian, for the entries
\* c = 4*L - 1 and l = 4*L of dN_dL
Tri6GradientOfShape(X, c1, c2, c3, l1, l2, l3) ==
    Tri6GradientOfJacobian(
        << <<c1, Q(0), Q(0)>>, <<Q(0), c2, Q(0)>>, <<Q(0), Q(0), c3>>,
           <<l2, l1, Q(0)>>, <<Q(0), l3, l2>>, <<l3, Q(0), l1>> >>,
        Dot(<<l2, l3, c1>>, <<Q(X[7]), Q(X[11]), Q(X[1])>>),
        Dot(<<l1, l3, c2>>, <<Q(X[7]), Q(X[9]), Q(X[3])>>),
        Dot(<<l1, l2, c3>>, <<Q(X[11]), Q(X[9]), Q(X[5])>>),
        Dot(<<l2, l3, c1>>, <<Q(X[8]), Q(X[12]), Q(X[2])>>),
        Dot(<<l1, l3, c2>>, <<Q(X[8]), Q(X[10]), Q(X[4])>>),
        Dot(<<l1, l2, c3>>, <<Q(X[12]), Q(X[10]), Q(X[6])>>))

\* lines 535-557: B0_tilde and det at the integration point (L1, L2, L3)
Tri6Gradient(X, L1, L2, L3) ==
    Tri6GradientOfShape(X,
        QSub(QMul(Q(4), L1), Q(1)), QSub(QMul(Q(4), L2), Q(1)),
        QSub(QMul(Q(4), L3), Q(1)),
        QMul(Q(4), L1), QMul(Q(4), L2), QMul(Q(4), L3))

\* lines 558-566: what an integration point of weight w adds, grad its det
\* and B0_tilde
Tri6PointOfGradient(mat, u, w, grad) ==
    PointTensors(mat, grad.B0_tilde, Reshape(FloatVec(u), 2),
                 QMul(QMul(QDiv(grad.det, Q(2)), mat.thickness), w))

\* lines 535-566: what the integration point n adds for X and u
Tri6Point(mat, X, u, n) ==
    Tri6PointOfGradient(mat, u, Tri6GaussPoints[n][4],
        Tri6Gradient(X, Tri6GaussPoints[n][1], Tri6GaussPoints[n][2],
                     Tri6GaussPoints[n][3]))

Tri6Points(mat, X, u) ==
    Tabulate(LAMBDA n : Tri6Point(mat, X, u, n), Len(Tri6GaussPoints))

\* lines 533-572: the passes n, n+1, ... of the loop over the integration
\* points, adding what the points pts give to the buffers acc
RECURSIVE Tri6Loop(_, _, _)
Tri6Loop(acc, pts, n) ==
    IF n > Len(pts) THEN acc
    ELSE LET pt == pts[n]
             extrapol == Tri6Extrapolation[n]
         IN  Tri6Loop([K |-> MatAdd(acc.K, pt.K),
                       f |-> VecAdd(acc.f, pt.f),
                       S |-> MatAdd(acc.S, Outer(extrapol, pt.S_row)),
                       E |-> MatAdd(acc.E, Outer(extrapol, pt.E_row)),
                       F |-> Append(acc.F, pt.F),
                       E_gp |-> Append(acc.E_gp, pt.E)],
                      pts, n + 1)

\* lines 529-532: self.K *= 0 multiplies the entries of the buffer by zero
TimesZero(A) == MatScale(A, Q(0))

\* lines 524-573: Tri6._compute_tensors on the buffers K, f, S, E of self,
\* pts the tensors at the integration points
Tri6Tensors(self, pts) ==
    Tri6Loop([K |-> TimesZero(self.K.val),
              f |-> VecScale(self.f.val, Q(0)),
              S |-> TimesZero(self.S.val),
              E |-> TimesZero(self.E.val),
              F |-> <<>>, E_gp |-> <<>>],
             pts, 1)

(***************************************************************************)
(* element.py: the mass matrices                                           *)
(***************************************************************************)
\* lines 456-466: Tri3._m_int; sets self.A0 and self.M
Tri3Mass(mat, X) ==
    LET A0 == QMul(<<1, 2>>, Q((X[5] - X[3]) * (X[2] - X[4])
                               - (X[1] - X[3]) * (X[6] - X[4])))
        pattern == << <<2, 0, 1, 0, 1, 0>>, <<0, 2, 0, 1, 0, 1>>,
                      <<1, 0, 2, 0, 1, 0>>, <<0, 1, 0, 2, 0, 1>>,
                      <<1, 0, 1, 0, 2, 0>>, <<0, 1, 0, 1, 0, 2>> >>
        scale == QMul(QMul(QDiv(A0, Q(12)), mat.thickness), mat.rho)
    IN  [A0 |-> A0,
         M |-> Tabulate(LAMBDA i : Tabulate(LAMBDA j :
                   QMul(Q(pattern[i][j]), scale), 6), 6)]

\* lines 582-599: what the integration point n adds to M_small
Tri6MassPoint(mat, X, n) ==
    LET gp == Tri6GaussPoints[n]
        L1 == gp[1]
        L2 == gp[2]
        L3 == gp[3]
        det == Tri6Gradient(X, L1, L2, L3).det
        N == <<QMul(L1, QSub(QMul(Q(2), L1), Q(1))),
               QMul(L2, QSub(QMul(Q(2), L2), Q(1))),
               QMul(L3, QSub(QMul(Q(2), L3), Q(1))),
               QMul(Q(4), QMul(L1, L2)),
               QMul(Q(4), QMul(L2, L3)),
               QMul(Q(4), QMul(L1, L3))>>
    IN  MatScale(Outer(N, N),
                 QMul(QMul(QMul(QDiv(det, Q(2)), mat.rho), mat.thickness), gp[4]))

Tri6MassPoints(mat, X) ==
    Tabulate(LAMBDA n : Tri6MassPoint(mat, X, n), Len(Tri6GaussPoints))

\* lines 580-599: the passes n, n+1, ... of the loop of Tri6._m_int
RECURSIVE Tri6MassLoop(_, _, _)
Tri6MassLoop(M_small, pts, n) ==
    IF n > Len(pts) THEN M_small
    ELSE Tri6MassLoop(MatAdd(M_small, pts[n]), pts, n + 1)

\* line 600: self.M = scatter_matrix(self.M_small, 2)
Tri6MassOf(M_small) == [M_small |-> M_small, M |-> scatter_matrix(M_small, 2)]

\* lines 576-602: Tri6._m_int on the buffer M_small of self
Tri6Mass(self, pts) ==
    Tri6MassOf(Tri6MassLoop(TimesZero(self.M_small.val), pts, 1))

\* lines 907-931: Tet4._m_int
Tet4Mass(mat, X) ==
    LET X1 == X[1]    Y1 == X[2]    Z1 == X[3]
        X2 == X[4]    Y2 == X[5]    Z2 == X[6]
        X3 == X[7]    Y3 == X[8]    Z3 == X[9]
        X4 == X[10]   Y4 == X[11]   Z4 == X[12]
        det == X1*Y2*Z3 - X1*Y2*Z4 - X1*Y3*Z2 + X1*Y3*Z4 + X1*Y4*Z2 - X1*Y4*Z3
             - X2*Y1*Z3 + X2*Y1*Z4 + X2*Y3*Z1 - X2*Y3*Z4 - X2*Y4*Z1 + X2*Y4*Z3
             + X3*Y1*Z2 - X3*Y1*Z4 - X3*Y2*Z1 + X3*Y2*Z4 + X3*Y4*Z1 - X3*Y4*Z2
             - X4*Y1*Z2 + X4*Y1*Z3 + X4*Y2*Z1 - X4*Y2*Z3 - X4*Y3*Z1 + X4*Y3*Z2
        V == QDiv(Q(0 - det), Q(6))
        scale == QMul(QDiv(V, Q(20)), mat.rho)
    IN  Tabulate(LAMBDA i : Tabulate(LAMBDA j :
            QMul(scale, IF i = j THEN Q(2)
                        ELSE IF (i - j) % 3 = 0 THEN Q(1) ELSE Q(0)), 12), 12)

\* mutant of BarKAndM: the local stiffness is lumped like the mass,
\* k_el_loc = k * [[1, 0], [0, 1]]
BarKAndMLumpedStiffness(e_modul, crosssec, rho, X) ==
    LET dx == X[3] - X[1]
        dy == X[4] - X[2]
        l == QSqrt(Q(dx * dx + dy * dy))
        k == QDiv(QMul(e_modul, crosssec), l)
        k_el_loc == << <<k, Q(0)>>, <<Q(0), k>> >>
        temp == <<QDiv(Q(dx), l), QDiv(Q(dy), l)>>
        A == << <<temp[1], temp[2], Q(0), Q(0)>>,
                <<Q(0), Q(0), temp[1], temp[2]>> >>
        k_el == MatMul(Transpose(A), MatMul(k_el_loc, A))
        m == QDiv(QMul(QMul(rho, crosssec), l), Q(6))
        m_el == Tabulate(LAMBDA i : Tabulate(LAMBDA j :
                    IF i = j THEN QMul(m, Q(3)) ELSE QMul(m, Q(0)), 4), 4)
    IN  [K |-> MatScale(MatAdd(k_el, Transpose(k_el)), <<1, 2>>),
         M |-> MatScale(MatAdd(m_el, Transpose(m_el)), <<1, 2>>)]

\* lines 1601-1621: Bar2Dlumped._k_and_m_int for the attributes e_modul,
\* crosssec and rho of self
BarKAndM(e_modul, crosssec, rho, X) ==
    LET dx == X[3] - X[1]
        dy == X[4] - X[2]
        l == QSqrt(Q(dx * dx + dy * dy))
        k == QDiv(QMul(e_modul, crosssec), l)
        k_el_loc == << <<k, QNeg(k)>>, <<QNeg(k), k>> >>
        temp == <<QDiv(Q(dx), l), QDiv(Q(dy), l)>>
        A == << <<temp[1], temp[2], Q(0), Q(0)>>,
                <<Q(0), Q(0), temp[1], temp[2]>> >>
        k_el == MatMul(Transpose(A), MatMul(k_el_loc, A))
        m == QDiv(QMul(QMul(rho, crosssec), l), Q(6))
        m_el == Tabulate(LAMBDA i : Tabulate(LAMBDA j :
                    IF i = j THEN QMul(m, Q(3)) ELSE QMul(m, Q(0)), 4), 4)
    IN  [K |-> MatScale(MatAdd(k_el, Transpose(k_el)), <<1, 2>>),
         M |-> MatScale(MatAdd(m_el, Transpose(m_el)), <<1, 2>>)]

(***************************************************************************)
(* element.py: the boundary elements                                       *)
(***************************************************************************)
\* the argument direct: the string 'normal', as the very object of the
\* literal of line 1764 or as an equal string that is another object, or a
\* direction vector
NormalLiteral == [str |-> "normal", same_object |-> TRUE, vec |-> <<>>]

NormalOtherObject == [str |-> "normal", same_object |-> FALSE, vec |-> <<>>]

Direction(v) == [str |-> "", same_object |-> FALSE, vec |-> FloatVec(v)]

\* line 1764: direct is 'normal'
IsNormal(direct) == direct.str = "normal" /\ direct.same_object

\* lines 1764-1777: the function f_proj chosen at construction
ChooseFProj(direct, shadow_area) ==
    IF IsNormal(direct) THEN "flatten"
    ELSE IF shadow_area THEN "f_proj_a_shadow" ELSE "f_proj_a"

\* np.linalg.norm(v)
VecNorm(v) == QSqrt(Dot(v, v))

\* lines 1654-1658
f_proj_a(f_mat, direction) ==
    Flatten(Tabulate(LAMBDA i : VecScale(direction, QSqrt(Dot(f_mat[i], f_mat[i]))),
                     Len(f_mat)))

\* mutant of f_proj_a_shadow: the shadow area is ignored, every node gets
\* the magnitude of its force as in f_proj_a
f_proj_a_shadow_ignored(f_mat, direction) ==
    Flatten(Tabulate(LAMBDA i : VecScale(direction, QSqrt(Dot(f_mat[i], f_mat[i]))),
                     Len(f_mat)))

\* lines 1680-1688
f_proj_a_shadow(f_mat, direction) ==
    Flatten(Tabulate(LAMBDA i :
                VecScale(direction, QDiv(Dot(direction, f_mat[i]), VecNorm(direction))),
            Len(f_mat)))

\* self.f_proj(f_mat) for the array self.direct; "" when the call returns,
\* else the exception of numpy for an array of strings: of the product of
\* line 1657, or of the matrix product of line 1686
FProj(self, f_mat) ==
    IF self.f_proj = "flatten" THEN [err |-> "", val |-> Flatten(f_mat)]
    ELSE IF self.direct.val.str # ""
         THEN [err |-> IF self.f_proj = "f_proj_a" THEN "TypeError"
                       ELSE "TypeError or ValueError",
               val |-> <<>>]
         ELSE [err |-> "",
               val |-> IF self.f_proj = "f_proj_a_shadow"
                       THEN f_proj_a_shadow(f_mat, self.direct.val.vec)
                       ELSE f_proj_a(f_mat, self.direct.val.vec)]

\* self.time_func(t): const_func of lines 1779-1780, or the caller's ramp
TimeFunc(time_func, t) == IF time_func = "const_func" THEN Q(1) ELSE Q(t)

\* np.cross(v, w)
Cross(v, w) ==
    <<QSub(QMul(v[2], w[3]), QMul(v[3], w[2])),
      QSub(QMul(v[3], w[1]), QMul(v[1], w[3])),
      QSub(QMul(v[1], w[2]), QMul(v[2], w[1]))>>

\* lines 1802-1807: f_mat of Tri3Boundary
Tri3BoundaryFMat(X, u) ==
    LET x == Reshape(FloatVec(Tabulate(LAMBDA c : X[c] + u[c], Len(X))), 3)
        v1 == VecAdd(x[3], VecScale(x[1], Q(0 - 1)))
        v2 == VecAdd(x[2], VecScale(x[1], Q(0 - 1)))
        n == VecScale(Cross(v1, v2), <<1, 2>>)
    IN  Outer(<< <<1, 3>>, <<1, 3>>, <<1, 3>> >>, n)

\* lines 1973-1983 and 2005-2008: f_mat of the line elements, N the weights
\* of the nodes
LineBoundaryFMat(N, X, u) ==
    LET x == Reshape(FloatVec(Tabulate(LAMBDA c : X[c] + u[c], Len(X))), 2)
        v == VecAdd(x[2], VecScale(x[1], Q(0 - 1)))
        n == MatVec(<< <<Q(0), Q(1)>>, <<Q(0 - 1), Q(0)>> >>, v)
    IN  Outer(N, n)

\* the numbers a + b*g with rational a and b, for the abscissa g of a Gauss
\* rule whose square gsq is rational: <<a, b>>
SQ(q) == <<q, Q(0)>>

SAdd(x, y) == <<QAdd(x[1], y[1]), QAdd(x[2], y[2])>>

SScale(x, q) == <<QMul(x[1], q), QMul(x[2], q)>>

SSub(x, y) == SAdd(x, SScale(y, Q(0 - 1)))

SMul(x, y, gsq) ==
    <<QAdd(QMul(x[1], y[1]), QMul(gsq, QMul(x[2], y[2]))),
      QAdd(QMul(x[1], y[2]), QMul(x[2], y[1]))>>

SSum(s) ==
    <<QSum(Tabulate(LAMBDA k : s[k][1], Len(s))),
      QSum(Tabulate(LAMBDA k : s[k][2], Len(s)))>>

\* c_xi*xi + c_eta*eta + c_one at the point (xi_g, eta_g)
Lin(xi_g, eta_g, c_xi, c_eta, c_one) ==
    SAdd(SAdd(SScale(xi_g, Q(c_xi)), SScale(eta_g, Q(c_eta))), SQ(Q(c_one)))

\* np.cross(v, w) for vectors of such numbers
SCross(v, w, gsq) ==
    <<SSub(SMul(v[2], w[3], gsq), SMul(v[3], w[2], gsq)),
      SSub(SMul(v[3], w[1], gsq), SMul(v[1], w[3], gsq)),
      SSub(SMul(v[1], w[2], gsq), SMul(v[2], w[1], gsq))>>

\* the float of a sum over a Gauss rule: the multiples of g cancel in the
\* sums over the points g and -g
FloatOfSum(x) == IF x[2] = Q(0) THEN x[1] ELSE NaN

\* x_vec = (X+u).reshape((-1, 3))
DeformedNodes(X, u) ==
    Reshape(FloatVec(Tabulate(LAMBDA c : X[c] + u[c], Len(X))), 3)

\* lines 1819-1821: the Gauss points (L1, L2, L3, w) of Tri6Boundary
Tri6BoundaryGaussPoints ==
    << << <<1, 6>>, <<1, 6>>, <<2, 3>>, <<1, 3>> >>,
       << <<1, 6>>, <<2, 3>>, <<1, 6>>, <<1, 3>> >>,
       << <<2, 3>>, <<1, 6>>, <<1, 6>>, <<1, 3>> >> >>

\* lines 1842-1856: np.outer(N, n) / 2 * w at the Gauss point (L1, L2, L3, w)
Tri6BoundaryPoint(x_vec, L1, L2, L3, w) ==
    LET N == <<QMul(L1, QSub(QMul(Q(2), L1), Q(1))),
               QMul(L2, QSub(QMul(Q(2), L2), Q(1))),
               QMul(L3, QSub(QMul(Q(2), L3), Q(1))),
               QMul(Q(4), QMul(L1, L2)),
               QMul(Q(4), QMul(L2, L3)),
               QMul(Q(4), QMul(L1, L3))>>
        dN_dL == << <<QSub(QMul(Q(4), L1), Q(1)), Q(0), Q(0)>>,
                    <<Q(0), QSub(QMul(Q(4), L2), Q(1)), Q(0)>>,
                    <<Q(0), Q(0), QSub(QMul(Q(4), L3), Q(1))>>,
                    <<QMul(Q(4), L2), QMul(Q(4), L1), Q(0)>>,
                    <<Q(0), QMul(Q(4), L3), QMul(Q(4), L2)>>,
                    <<QMul(Q(4), L3), Q(0), QMul(Q(4), L1)>> >>
        dL_dx == Transpose(MatMul(Transpose(x_vec), dN_dL))
        v1 == VecAdd(dL_dx[3], VecScale(dL_dx[1], Q(0 - 1)))
        v2 == VecAdd(dL_dx[2], VecScale(dL_dx[1], Q(0 - 1)))
    IN  MatScale(Outer(N, Cross(v1, v2)), QMul(<<1, 2>>, w))

\* lines 1837-1857: f_mat of Tri6Boundary, the sum over the Gauss points
Tri6BoundaryFMat(X, u) ==
    LET gp == Tri6BoundaryGaussPoints
        pt(n) == Tri6BoundaryPoint(DeformedNodes(X, u), gp[n][1], gp[n][2],
                                   gp[n][3], gp[n][4])
    IN  MatAdd(MatAdd(MatAdd(ZeroMat(6, 3), pt(1)), pt(2)), pt(3))

\* lines 1865-1870: g1 = 1/np.sqrt(3) squared, and the Gauss points
\* (xi, eta, w) of Quad4Boundary in multiples of g1
Quad4GSq == <<1, 3>>

Quad4BoundaryGaussPoints ==
    << <<0 - 1, 0 - 1, Q(1)>>, <<1, 0 - 1, Q(1)>>, <<1, 1, Q(1)>>, <<0 - 1, 1, Q(1)>> >>

\* lines 1887-1890: N at (xi, eta)
Quad4BoundaryN(xi_g, eta_g, gsq) ==
    << SScale(SMul(Lin(xi_g, eta_g, 0, 0 - 1, 1), Lin(xi_g, eta_g, 0 - 1, 0, 1), gsq), <<1, 4>>),
       SScale(SMul(Lin(xi_g, eta_g, 0, 0 - 1, 1), Lin(xi_g, eta_g, 1, 0, 1), gsq), <<1, 4>>),
       SScale(SMul(Lin(xi_g, eta_g, 0, 1, 1), Lin(xi_g, eta_g, 1, 0, 1), gsq), <<1, 4>>),
       SScale(SMul(Lin(xi_g, eta_g, 0, 1, 1), Lin(xi_g, eta_g, 0 - 1, 0, 1), gsq), <<1, 4>>) >>

\* lines 1892-1895: dN_dxi at (xi, eta)
Quad4BoundaryDN(xi_g, eta_g) ==
    << <<SScale(Lin(xi_g, eta_g, 0, 1, 0 - 1), <<1, 4>>),
         SScale(Lin(xi_g, eta_g, 1, 0, 0 - 1), <<1, 4>>)>>,
       <<SScale(Lin(xi_g, eta_g, 0, 0 - 1, 1), <<1, 4>>),
         SScale(Lin(xi_g, eta_g, 0 - 1, 0, 0 - 1), <<1, 4>>)>>,
       <<SScale(Lin(xi_g, eta_g, 0, 1, 1), <<1, 4>>),
         SScale(Lin(xi_g, eta_g, 1, 0, 1), <<1, 4>>)>>,
       <<SScale(Lin(xi_g, eta_g, 0, 0 - 1, 0 - 1), <<1, 4>>),
         SScale(Lin(xi_g, eta_g, 0 - 1, 0, 1), <<1, 4>>)>> >>

\* lines 1907-1912: g = np.sqrt(3/5) squared, the weights w = 5/9 and
\* w0 = 8/9, and the Gauss points (xi, eta, w) of Quad8Boundary in
\* multiples of g
Quad8GSq == <<3, 5>>

Quad8BoundaryGaussPoints ==
    LET ww == <<25, 81>>
        w0w == <<40, 81>>
        w0w0 == <<64, 81>>
    IN  << <<0 - 1, 0 - 1, ww>>, <<1, 0 - 1, ww>>, <<1, 1, ww>>,
           <<0 - 1, 1, ww>>, <<0, 0 - 1, w0w>>, <<1, 0, w0w>>,
           <<0, 1, w0w>>, <<0 - 1, 0, w0w>>, <<0, 0, w0w0>> >>

\* lines 1932-1939: N at (xi, eta)
Quad8BoundaryN(xi_g, eta_g, gsq) ==
    LET one == SQ(Q(1))
        xi2 == SMul(xi_g, xi_g, gsq)
        eta2 == SMul(eta_g, eta_g, gsq)
    IN  << SScale(SMul(SMul(Lin(xi_g, eta_g, 0, 0 - 1, 1), Lin(xi_g, eta_g, 0 - 1, 0, 1), gsq),
                       Lin(xi_g, eta_g, 0 - 1, 0 - 1, 0 - 1), gsq), <<1, 4>>),
           SScale(SMul(SMul(Lin(xi_g, eta_g, 0, 0 - 1, 1), Lin(xi_g, eta_g, 1, 0, 1), gsq),
                       Lin(xi_g, eta_g, 1, 0 - 1, 0 - 1), gsq), <<1, 4>>),
           SScale(SMul(SMul(Lin(xi_g, eta_g, 0, 1, 1), Lin(xi_g, eta_g, 1, 0, 1), gsq),
                       Lin(xi_g, eta_g, 1, 1, 0 - 1), gsq), <<1, 4>>),
           SScale(SMul(SMul(Lin(xi_g, eta_g, 0, 1, 1), Lin(xi_g, eta_g, 0 - 1, 0, 1), gsq),
                       Lin(xi_g, eta_g, 0 - 1, 1, 0 - 1), gsq), <<1, 4>>),
           SScale(SMul(Lin(xi_g, eta_g, 0, 0 - 1, 1), SSub(one, xi2), gsq), <<1, 2>>),
           SScale(SMul(SSub(one, eta2), Lin(xi_g, eta_g, 1, 0, 1), gsq), <<1, 2>>),
           SScale(SMul(Lin(xi_g, eta_g, 0, 1, 1), SSub(one, xi2), gsq), <<1, 2>>),
           SScale(SMul(SSub(one, eta2), Lin(xi_g, eta_g, 0 - 1, 0, 1), gsq), <<1, 2>>) >>

\* lines 1941-1949: dN_dxi at (xi, eta)
Quad8BoundaryDN(xi_g, eta_g, gsq) ==
    LET half == SQ(<<1, 2>>)
        xi2 == SMul(xi_g, xi_g, gsq)
        eta2 == SMul(eta_g, eta_g, gsq)
    IN  << <<SScale(SMul(Lin(xi_g, eta_g, 0, 1, 0 - 1), Lin(xi_g, eta_g, 2, 1, 0), gsq), <<0 - 1, 4>>),
             SScale(SMul(Lin(xi_g, eta_g, 1, 2, 0), Lin(xi_g, eta_g, 1, 0, 0 - 1), gsq), <<0 - 1, 4>>)>>,
           <<SScale(SMul(Lin(xi_g, eta_g, 0, 1, 0 - 1), Lin(xi_g, eta_g, 0 - 2, 1, 0), gsq), <<1, 4>>),
             SScale(SMul(Lin(xi_g, eta_g, 0 - 1, 2, 0), Lin(xi_g, eta_g, 1, 0, 1), gsq), <<1, 4>>)>>,
           <<SScale(SMul(Lin(xi_g, eta_g, 0, 1, 1), Lin(xi_g, eta_g, 2, 1, 0), gsq), <<1, 4>>),
             SScale(SMul(Lin(xi_g, eta_g, 1, 2, 0), Lin(xi_g, eta_g, 1, 0, 1), gsq), <<1, 4>>)>>,
           <<SScale(SMul(Lin(xi_g, eta_g, 0, 1, 1), Lin(xi_g, eta_g, 0 - 2, 1, 0), gsq), <<0 - 1, 4>>),
             SScale(SMul(Lin(xi_g, eta_g, 0 - 1, 2, 0), Lin(xi_g, eta_g, 1, 0, 0 - 1), gsq), <<0 - 1, 4>>)>>,
           <<SMul(xi_g, Lin(xi_g, eta_g, 0, 1, 0 - 1), gsq),
             SSub(SScale(xi2, <<1, 2>>), half)>>,
           <<SSub(half, SScale(eta2, <<1, 2>>)),
             SScale(SMul(eta_g, Lin(xi_g, eta_g, 1, 0, 1), gsq), Q(0 - 1))>>,
           <<SScale(SMul(xi_g, Lin(xi_g, eta_g, 0, 1, 1), gsq), Q(0 - 1)),
             SSub(half, SScale(xi2, <<1, 2>>))>>,
           <<SSub(SScale(eta2, <<1, 2>>), half),
             SMul(eta_g, Lin(xi_g, eta_g, 1, 0, 0 - 1), gsq)>> >>

\* lines 1897-1899 and 1951-1953: np.outer(N, n) * w for
\* dx_dxi = x_vec.T @ dN_dxi and n = np.cross(dx_dxi[:,1], dx_dxi[:,0])
QuadBoundaryPoint(x_vec, N, dN_dxi, w, gsq) ==
    LET column(k) == Tabulate(LAMBDA c :
                        SSum(Tabulate(LAMBDA i : SScale(dN_dxi[i][k], x_vec[i][c]),
                                      Len(x_vec))), 3)
        n == SCross(column(2), column(1), gsq)
    IN  Tabulate(LAMBDA i : Tabulate(LAMBDA c :
            SScale(SMul(N[i], n[c], gsq), w), 3), Len(N))

\* the sum of the matrices pts, entry by entry, as floats
SumOfPoints(pts) ==
    Tabulate(LAMBDA i : Tabulate(LAMBDA c :
        FloatOfSum(SSum(Tabulate(LAMBDA n : pts[n][i][c], Len(pts)))), 3),
        Len(pts[1]))

\* lines 1882-1900: f_mat of Quad4Boundary
Quad4BoundaryFMat(X, u) ==
    SumOfPoints(Tabulate(LAMBDA n :
        QuadBoundaryPoint(DeformedNodes(X, u),
            Quad4BoundaryN(<<Q(0), Q(Quad4BoundaryGaussPoints[n][1])>>,
                           <<Q(0), Q(Quad4BoundaryGaussPoints[n][2])>>, Quad4GSq),
            Quad4BoundaryDN(<<Q(0), Q(Quad4BoundaryGaussPoints[n][1])>>,
                            <<Q(0), Q(Quad4BoundaryGaussPoints[n][2])>>),
            Quad4BoundaryGaussPoints[n][3], Quad4GSq),
        Len(Quad4BoundaryGaussPoints)))

\* lines 1925-1952: f_mat of Quad8Boundary
Quad8BoundaryFMat(X, u) ==
    SumOfPoints(Tabulate(LAMBDA n :
        QuadBoundaryPoint(DeformedNodes(X, u),
            Quad8BoundaryN(<<Q(0), Q(Quad8BoundaryGaussPoints[n][1])>>,
                           <<Q(0), Q(Quad8BoundaryGaussPoints[n][2])>>, Quad8GSq),
            Quad8BoundaryDN(<<Q(0), Q(Quad8BoundaryGaussPoints[n][1])>>,
                            <<Q(0), Q(Quad8BoundaryGaussPoints[n][2])>>, Quad8GSq),
            Quad8BoundaryGaussPoints[n][3], Quad8GSq),
        Len(Quad8BoundaryGaussPoints)))

BoundaryClasses == {"Tri3Boundary", "LineLinearBoundary"}

\* the boundary elements of the faces of solids
PatchClasses == {"Tri3Boundary", "Tri6Boundary", "Quad4Boundary", "Quad8Boundary"}

\* the argument ndof of BoundaryElement.__init__ (lines 1799, 1830, 1874,
\* 1917, 1970)
BoundaryDofs(cls) ==
    IF cls = "Tri3Boundary" THEN 9
    ELSE IF cls = "Tri6Boundary" THEN 18
    ELSE IF cls = "Quad4Boundary" THEN 12
    ELSE IF cls = "Quad8Boundary" THEN 24
    ELSE 4

\* lines 1808 and 1982: the projected force proj times self.val and
\* self.time_func(t)
Scaled(self, t, proj) ==
    IF proj.err # "" THEN proj
    ELSE [err |-> "",
          val |-> VecScale(VecScale(proj.val, self.val.val),
                           TimeFunc(self.time_func, t))]

(***************************************************************************)
(* the arguments of the calls on the elements                              *)
(***************************************************************************)
\* times t of the calls; only the boundary elements read t
Times(cls) == IF cls \in BoundaryClasses \cup PatchClasses THEN {0, 1} ELSE {0}

\* the vector of n equal entries
Const(n, x) == Tabulate(LAMBDA c : x, n)

\* nodal coordinates X and displacements u the element is called with; the
\* last X of Tri3, Tri6 and Tet4 has no area or volume, the last of the bar
\* no length
ElementInputs(cls) ==
    IF cls = "Tri3"
    THEN {[X |-> X, u |-> u] :
             X \in {<<0, 0, 1, 0, 0, 1>>, <<0, 0, 2, 0, 0, 1>>, <<0, 0, 1, 0, 2, 0>>},
             u \in {Const(6, 0), <<0, 0, 1, 0, 0, 0>>}}
    ELSE IF cls = "Tri6"
    THEN {[X |-> X, u |-> u] :
             X \in {<<0, 0, 2, 0, 0, 2, 1, 0, 1, 1, 0, 1>>,
                    <<0, 0, 2, 0, 4, 0, 1, 0, 3, 0, 2, 0>>},
             u \in {Const(12, 0), <<0, 0, 2, 0, 0, 0, 1, 0, 1, 0, 0, 0>>}}
         \ {[X |-> <<0, 0, 2, 0, 4, 0, 1, 0, 3, 0, 2, 0>>,
              u |-> <<0, 0, 2, 0, 0, 0, 1, 0, 1, 0, 0, 0>>]}
    ELSE IF cls = "Tet4"
    THEN {[X |-> X, u |-> u] :
             X \in {<<0, 0, 0, 1, 0, 0, 0, 1, 0, 0, 0, 1>>,
                    <<0, 0, 0, 2, 0, 0, 0, 1, 0, 0, 0, 1>>,
                    <<0, 0, 0, 1, 0, 0, 0, 1, 0, 1, 1, 0>>},
             u \in {Const(12, 0), <<0, 0, 0, 1, 0, 0, 0, 0, 0, 0, 0, 0>>}}
    ELSE IF cls = "Prism6"
    THEN {[X |-> X, u |-> u] :
             X \in {<<0, 0, 0, 1, 0, 0, 0, 1, 0, 0, 0, 1, 1, 0, 1, 0, 1, 1>>,
                    Const(18, 0)},
             u \in {Const(18, 0), Const(18, 1)}}
    ELSE IF cls = "Bar2Dlumped"
    THEN {[X |-> X, u |-> u] :
             X \in {<<0, 0, 2, 0>>, <<0, 0, 3, 4>>, <<1, 1, 1, 1>>},
             u \in {Const(4, 0), <<0, 0, 1, 0>>}}
    ELSE IF cls = "Tri3Boundary"
    THEN {[X |-> <<0, 0, 0, 1, 0, 0, 0, 1, 0>>, u |-> Const(9, 0)],
          [X |-> <<0, 0, 0, 1, 0, 0, 0, 1, 0>>, u |-> Const(9, 1)],
          [X |-> <<0, 0, 0, 0, 2, 0, 0, 0, 1>>, u |-> Const(9, 0)]}
    ELSE {[X |-> <<0, 0, 2, 0>>, u |-> Const(4, 0)],
          [X |-> <<0, 0, 2, 0>>, u |-> Const(4, 1)],
          [X |-> <<0, 0, 3, 4>>, u |-> Const(4, 0)]}

\* the arguments a boundary element is constructed with
BoundaryVals == {2}

Directs(cls) ==
    {NormalLiteral, NormalOtherObject}
    \cup (IF cls = "Tri3Boundary"
          THEN {Direction(<<0, 3, 4>>)}
          ELSE {Direction(<<3, 4>>)})

TimeFuncs == {"const_func", "ramp"}

\* the coordinates among the inputs of a class
Coordinates(cls) == {inp.X : inp \in ElementInputs(cls)}

\* the tensors and mass matrices for the materials and inputs of the model
Tri3Table ==
    [mat \in Materials |->
        [inp \in ElementInputs("Tri3") |-> Tri3Tensors(mat, inp.X, inp.u)]]

Tri6Table ==
    [mat \in Materials |->
        [inp \in ElementInputs("Tri6") |-> Tri6Points(mat, inp.X, inp.u)]]

Tet4Table ==
    [mat \in Materials |->
        [inp \in ElementInputs("Tet4") |-> Tet4Tensors(mat, inp.X, inp.u)]]

Tri3MassTable ==
    [mat \in Materials |-> [X \in Coordinates("Tri3") |-> Tri3Mass(mat, X)]]

Tri6MassTable ==
    [mat \in Materials |-> [X \in Coordinates("Tri6") |-> Tri6MassPoints(mat, X)]]

Tet4MassTable ==
    [mat \in Materials |-> [X \in Coordinates("Tet4") |-> Tet4Mass(mat, X)]]

\* the materials of a bar whose material is exchanged for another
BarMaterials ==
    Materials \cup {[E |-> Q(4), nu |-> <<1, 3>>, rho |-> Q(1),
                     thickness |-> Q(2), crossec |-> Q(2)]}

BarTable ==
    [p \in {<<mat.E, mat.crossec, mat.rho>> : mat \in BarMaterials} |->
        [X \in Coordinates("Bar2Dlumped") |-> BarKAndM(p[1], p[2], p[3], X)]]

\* mutant of BarParameters: the parameters are read from the material when
\* the bar is evaluated
BarParametersOfMaterial(self, mat) == <<mat.E, mat.crossec, mat.rho>>

\* lines 1605 and 1613: self.e_modul, self.crosssec, self.rho
BarParameters(self, mat) ==
    <<self.e_modul.val, self.crosssec.val, self.rho.val>>

\* the corners and the midside nodes, in the order of the class, of the
\* patch spanned by the edge vectors e1 and e2 from the origin
PatchNodes(cls, e1, e2) ==
    LET at(p, q) == <<(p * e1[1] + q * e2[1]) \div 2,
                      (p * e1[2] + q * e2[2]) \div 2,
                      (p * e1[3] + q * e2[3]) \div 2>>
    IN  IF cls = "Tri3Boundary" THEN at(0, 0) \o at(2, 0) \o at(0, 2)
        ELSE IF cls = "Tri6Boundary"
        THEN at(0, 0) \o at(2, 0) \o at(0, 2) \o at(1, 0) \o at(1, 1) \o at(0, 1)
        ELSE IF cls = "Quad4Boundary"
        THEN at(0, 0) \o at(2, 0) \o at(2, 2) \o at(0, 2)
        ELSE at(0, 0) \o at(2, 0) \o at(2, 2) \o at(0, 2)
                      \o at(1, 0) \o at(2, 1) \o at(1, 2) \o at(0, 1)

\* nodal coordinates X and displacements u of the calls: a patch in the
\* plane z = 0, the same stretched to double width by u, and a patch
\* tilted about the x axis
PatchInputs(cls) ==
    {[X |-> PatchNodes(cls, <<2, 0, 0>>, <<0, 2, 0>>), u |-> Const(BoundaryDofs(cls), 0)],
     [X |-> PatchNodes(cls, <<2, 0, 0>>, <<0, 2, 0>>),
      u |-> PatchNodes(cls, <<2, 0, 0>>, <<0, 0, 0>>)],
     [X |-> PatchNodes(cls, <<2, 0, 0>>, <<0, 6, 8>>), u |-> Const(BoundaryDofs(cls), 0)]}

\* lines 1837-1857, 1882-1900 and 1925-1952: f_mat of the classes that
\* integrate over Gauss points
GaussFMat(cls, X, u) ==
    IF cls = "Tri6Boundary" THEN Tri6BoundaryFMat(X, u)
    ELSE IF cls = "Quad4Boundary" THEN Quad4BoundaryFMat(X, u)
    ELSE Quad8BoundaryFMat(X, u)

GaussFMatTable ==
    [cls \in PatchClasses \ {"Tri3Boundary"} |->
        [inp \in PatchInputs(cls) |-> GaussFMat(cls, inp.X, inp.u)]]

\* lines 1802-1807, 1837-1857, 1882-1900, 1925-1952 and 1973-1981: the
\* normal-force vectors of the nodes
BoundaryFMat(cls, X, u) ==
    IF cls = "Tri3Boundary" THEN Tri3BoundaryFMat(X, u)
    ELSE IF cls \in PatchClasses THEN GaussFMatTable[cls][[X |-> X, u |-> u]]
    ELSE LineBoundaryFMat(<< <<1, 2>>, <<1, 2>> >>, X, u)

\* lines 1801-1810, 1972-1984: _compute_tensors of a boundary
\* element; the force self.f, or the exception of f_proj
BoundaryForce(self, X, u, t) == Scaled(self, t, FProj(self, BoundaryFMat(self.cls, X, u)))

(***************************************************************************)
(* element.py: the element objects                                         *)
(***************************************************************************)
\* an object without attributes; attrs names the attributes it has
NoElement ==
    [cls |-> "", attrs |-> {}, material |-> FALSE,
     K |-> None, f |-> None, S |-> None, E |-> None, M |-> None,
     M_small |-> None, A0 |-> None,
     e_modul |-> None, crosssec |-> None, rho |-> None,
     val |-> None, direct |-> None, f_proj |-> "", time_func |-> ""]

\* lines 171-182: Element.__init__; material is a reference to the Material
BaseElement(cls) ==
    [NoElement EXCEPT !.cls = cls, !.material = TRUE,
                      !.attrs = {"material", "K", "f", "S", "E"}]

\* lines 382-393, 478-486, 853-859, 1562-1568, 1583-1587: the constructors
NewPlaneOrSolid(cls) ==
    LET base == BaseElement(cls)
    IN  IF cls = "Tri3"
        THEN [base EXCEPT !.K = Some(ZeroMat(6, 6)), !.f = Some(ZeroVec(6)),
                          !.S = Some(ZeroMat(3, 6)), !.E = Some(ZeroMat(3, 6))]
        ELSE IF cls = "Tri6"
        THEN [base EXCEPT !.K = Some(ZeroMat(12, 12)), !.f = Some(ZeroVec(12)),
                          !.M_small = Some(ZeroMat(6, 6)),
                          !.M = Some(ZeroMat(12, 12)),
                          !.S = Some(ZeroMat(6, 6)), !.E = Some(ZeroMat(6, 6)),
                          !.attrs = @ \cup {"M_small", "M"}]
        ELSE IF cls = "Tet4"
        THEN [base EXCEPT !.K = Some(ZeroMat(12, 12)), !.f = Some(ZeroVec(12)),
                          !.M = Some(ZeroMat(12, 12)),
                          !.S = Some(ZeroMat(4, 6)), !.E = Some(ZeroMat(4, 6)),
                          !.attrs = @ \cup {"M"}]
        ELSE IF cls = "Prism6"
        THEN [base EXCEPT !.K = Some(ZeroMat(18, 18)), !.f = Some(ZeroVec(18)),
                          !.M = Some(ZeroMat(18, 18)),
                          !.S = Some(ZeroMat(6, 6)), !.E = Some(ZeroMat(6, 6)),
                          !.attrs = @ \cup {"M"}]
        ELSE [base EXCEPT !.K = Some(ZeroMat(4, 4)), !.M = Some(ZeroMat(4, 4)),
                          !.f = Some(ZeroVec(4)),
                          !.attrs = @ \cup {"M"}]

\* lines 1756-1784: BoundaryElement.__init__, which does not call
\* Element.__init__; line 1769 keeps direct as an array
NewBoundary(cls, val, direct, time_func, shadow_area) ==
    [NoElement EXCEPT
        !.cls = cls,
        !.attrs = {"val", "f", "K", "M", "direct", "f_proj", "time_func"},
        !.val = Some(Q(val)),
        !.f = Some(ZeroVec(BoundaryDofs(cls))),
        !.K = Some(ZeroMat(BoundaryDofs(cls), BoundaryDofs(cls))),
        !.M = Some(ZeroMat(BoundaryDofs(cls), BoundaryDofs(cls))),
        !.direct = Some(direct),
        !.f_proj = ChooseFProj(direct, shadow_area),
        !.time_func = time_func]

PlaneAndSolidClasses == {"Tri3", "Tri6", "Tet4"}

ElementClasses ==
    PlaneAndSolidClasses \cup {"Prism6", "Bar2Dlumped"} \cup BoundaryClasses

\* the result of a method: the object afterwards, the value returned (a
\* tuple of arrays) and the exception raised, "" when it returns
Returns(self, ret) == [e |-> self, ret |-> ret, err |-> ""]

Raises(self, err) == [e |-> self, ret |-> <<>>, err |-> err]

\* self after its buffers K, f, E and S were assigned the tensors T
WithTensors(self, T) ==
    [self EXCEPT !.K = Some(T.K), !.f = Some(T.f), !.E = Some(T.E), !.S = Some(T.S)]

\* lines 1619-1621: self after K and M of the bar were assigned
WithBar(self, km) == [self EXCEPT !.K = Some(km.K), !.M = Some(km.M)]

\* mutant of WithForce: the force evaluation also writes a tangent,
\* the force in every row of self.K
WithForceAndStiffness(self, force) ==
    IF force.err # "" THEN Raises(self, force.err)
    ELSE Returns([self EXCEPT !.f = Some(force.val),
                              !.K = Some([i \in 1 .. Len(force.val) |-> force.val])],
                 <<>>)

\* lines 1808-1810, 1982-1984: self after the force was assigned, or the
\* exception of f_proj
WithForce(self, force) ==
    IF force.err # "" THEN Raises(self, force.err)
    ELSE Returns([self EXCEPT !.f = Some(force.val)], <<>>)

\* mutant of Prism6ComputeTensors: the placeholder raises
Prism6Raises(self) == Raises(self, "NotImplementedError")

\* lines 1571-1573: Prism6._compute_tensors prints a warning and returns
Prism6ComputeTensors(self) == Returns(self, <<>>)

\* self._compute_tensors(X, u, t) of the class of self
ComputeTensors(self, mat, X, u, t) ==
    IF self.cls = "Tri3"
    THEN Returns(WithTensors(self, Tri3Table[mat][[X |-> X, u |-> u]]), <<>>)
    ELSE IF self.cls = "Tri6"
    THEN Returns(WithTensors(self,
                     Tri6Tensors(self, Tri6Table[mat][[X |-> X, u |-> u]])), <<>>)
    ELSE IF self.cls = "Tet4"
    THEN Returns(WithTensors(self, Tet4Table[mat][[X |-> X, u |-> u]]), <<>>)
    ELSE IF self.cls = "Prism6"
    THEN Prism6ComputeTensors(self)
    ELSE IF self.cls = "Bar2Dlumped"
    THEN \* lines 1595-1596
         IF "e_modul" \notin self.attrs THEN Raises(self, "AttributeError")
         ELSE Returns(WithBar(self,
                  BarTable[BarParameters(self, mat)][X]),
                  <<>>)
    ELSE WithForce(self, BoundaryForce(self, X, u, t))

\* return self.M
ReturnsM(after) == Returns(after, <<after.M>>)

\* lines 456-466: self after Tri3._m_int assigned A0 and M
WithTri3Mass(self, m) ==
    [self EXCEPT !.A0 = Some(m.A0), !.M = Some(m.M), !.attrs = @ \cup {"A0", "M"}]

\* lines 576-602: self after Tri6._m_int wrote M_small and M
WithTri6Mass(self, m) == [self EXCEPT !.M_small = Some(m.M_small), !.M = Some(m.M)]

\* self._m_int(X, u, t) of the class of self
MInt(self, mat, X, u, t) ==
    IF self.cls = "Tri3"
    THEN ReturnsM(WithTri3Mass(self, Tri3MassTable[mat][X]))
    ELSE IF self.cls = "Tri6"
    THEN ReturnsM(WithTri6Mass(self, Tri6Mass(self, Tri6MassTable[mat][X])))
    ELSE IF self.cls = "Tet4"
    THEN ReturnsM([self EXCEPT !.M = Some(Tet4MassTable[mat][X])])
    ELSE IF self.cls = "Bar2Dlumped"
    THEN \* lines 1627-1629
         IF "e_modul" \notin self.attrs THEN Raises(self, "AttributeError")
         ELSE ReturnsM(WithBar(self,
                  BarTable[BarParameters(self, mat)][X]))
    ELSE \* lines 1575-1577 (Prism6, prints a warning) and 1786-1787
         ReturnsM(self)

ElementMethods ==
    {"k_and_f_int", "k_int", "f_int", "m_and_vec_int", "m_int", "k_f_S_E_int"}

\* lines 299-300 and 322-323: what m_int and m_and_vec_int return when
\* _m_int gave m
MassReturned(name, m, X) ==
    IF m.err # "" \/ name = "m_int" THEN m
    ELSE \* line 300: np.zeros_like(X)
         Returns(m.e, <<m.ret[1], Some(ZeroVec(Len(X)))>>)

\* lines 227-228, 250-251, 273-274 and 356-357: what the other methods
\* return when _compute_tensors gave c
TensorsReturned(name, c) ==
    IF c.err # "" THEN c
    ELSE IF name = "k_and_f_int" THEN Returns(c.e, <<c.e.K, c.e.f>>)
    ELSE IF name = "k_int" THEN Returns(c.e, <<c.e.K>>)
    ELSE IF name = "f_int" THEN Returns(c.e, <<c.e.f>>)
    ELSE IF {"S", "E"} \subseteq c.e.attrs
         THEN Returns(c.e, <<c.e.K, c.e.f, c.e.S, c.e.E>>)
         ELSE Raises(c.e, "AttributeError")

\* lines 200-357: the methods of Element
Method(name, self, mat, X, u, t) ==
    IF name \in {"m_int", "m_and_vec_int"}
    THEN MassReturned(name, MInt(self, mat, X, u, t), X)
    ELSE TensorsReturned(name, ComputeTensors(self, mat, X, u, t))

(***************************************************************************)
(* element.py: the arrays behind the attributes K, f, S and E              *)
(***************************************************************************)
\* mutant of Rebinds: every routine assigns new arrays
RebindsAlways(cls, name) == {"K", "f", "S", "E"}

\* the attributes among K, f, S, E that the routine behind the method name
\* of the class cls assigns a new array to; the other attributes keep their
\* array, which the routine writes in place (*=, +=) or leaves alone
Rebinds(cls, name) ==
    IF name \in {"m_int", "m_and_vec_int"}
    THEN \* lines 1627-1629 and 1619: the bar's _m_int assigns K as well
         IF cls = "Bar2Dlumped" THEN {"K"} ELSE {}
    ELSE IF cls \in {"Tri3", "Tet4"}
    THEN \* lines 429-432 and 894-898: self.K = ..., self.f = ...
         {"K", "f", "S", "E"}
    ELSE IF cls = "Tri6"
    THEN \* lines 529-532 and 567-572: self.K *= 0, self.K += ...
         {}
    ELSE IF cls = "Prism6"
    THEN \* lines 1570-1573: nothing is written
         {}
    ELSE IF cls = "Bar2Dlumped"
    THEN \* line 1619: self.K = 1/2*(k_el+k_el.T)
         {"K"}
    ELSE \* lines 1808, 1857, 1900, 1952, 1982: self.f = self.f_proj(f_mat) * ...
         {"f"}

\* the attributes the method name returns, in the order of the result
ReturnedNames(name) ==
    IF name = "k_and_f_int" THEN <<"K", "f">>
    ELSE IF name = "k_int" THEN <<"K">>
    ELSE IF name = "f_int" THEN <<"f">>
    ELSE IF name = "k_f_S_E_int" THEN <<"K", "f", "S", "E">>
    ELSE <<>>

\* the attribute name of the element self
BufferOf(self, name) ==
    IF name = "K" THEN self.K
    ELSE IF name = "f" THEN self.f
    ELSE IF name = "S" THEN self.S
    ELSE self.E

\* the arrays a caller kept, after the method name gave out: an array that
\* is still a buffer of the element shows what the routine wrote into it;
\* an array whose attribute was assigned a new array is no buffer any more
Seen(arrays, name, out) ==
    [i \in DOMAIN arrays |->
        IF ~arrays[i].alias THEN arrays[i]
        ELSE IF out.err = "" /\ arrays[i].name \in Rebinds(out.e.cls, name)
        THEN [arrays[i] EXCEPT !.alias = FALSE]
        ELSE [arrays[i] EXCEPT !.val = BufferOf(out.e, arrays[i].name)]]

(***************************************************************************)
(* element.py: the calls on an element                                     *)
(***************************************************************************)
\* the element after the call, the record of the call and the arrays kept
\* from earlier calls, out the result of the method
Called(name, X, u, t, out) ==
    /\ element' = out.e
    /\ elem_call' = [op |-> name, args |-> [X |-> X, u |-> u, t |-> t],
                     ret |-> out.ret, err |-> out.err]
    /\ kept' = IF kept = <<>> THEN kept ELSE Seen(kept, name, out)

\* a call of the method name of the element
ElementCall(name, X, u, t) ==
    /\ element.cls # ""
    /\ Called(name, X, u, t, Method(name, element, material.val, X, u, t))
    /\ UNCHANGED <<material, namespace>>
    /\ UNCHANGED <<nnls_vars, sys_vars>>

\* lines 200-228
k_and_f_int(X, u, t) == ElementCall("k_and_f_int", X, u, t)

\* lines 230-251
k_int(X, u, t) == ElementCall("k_int", X, u, t)

\* lines 253-274: Element.f_int
element_f_int(X, u, t) == ElementCall("f_int", X, u, t)

\* lines 276-300
m_and_vec_int(X, u, t) == ElementCall("m_and_vec_int", X, u, t)

\* lines 302-323
m_int(X, u, t) == ElementCall("m_int", X, u, t)

\* lines 325-357
k_f_S_E_int(X, u, t) == ElementCall("k_f_S_E_int", X, u, t)

\* mutant of foo: the parameters are moved out of the material
foo_takes_parameters ==
    /\ element.cls = "Bar2Dlumped"
    /\ element' = [element EXCEPT !.e_modul = Some(material.val.E),
                                  !.crosssec = Some(material.val.crossec),
                                  !.rho = Some(material.val.rho),
                                  !.attrs = @ \cup {"e_modul", "crosssec", "rho"}]
    /\ elem_call' = [NoElemCall EXCEPT !.op = "foo"]
    /\ material' = Some([material.val EXCEPT !.E = Q(0), !.crossec = Q(0),
                                             !.rho = Q(0)])
    /\ UNCHANGED namespace
    /\ UNCHANGED <<nnls_vars, sys_vars, kept>>

\* lines 1589-1592: Bar2Dlumped.foo reads the parameters of the material
foo ==
    /\ element.cls = "Bar2Dlumped"
    /\ element' = [element EXCEPT !.e_modul = Some(material.val.E),
                                  !.crosssec = Some(material.val.crossec),
                                  !.rho = Some(material.val.rho),
                                  !.attrs = @ \cup {"e_modul", "crosssec", "rho"}]
    /\ elem_call' = [NoElemCall EXCEPT !.op = "foo"]
    /\ UNCHANGED <<material, namespace>>
    /\ UNCHANGED <<nnls_vars, sys_vars, kept>>

\* a material and one element, just constructed
ElementInit ==
    /\ SolverIs(SolverIdle)
    /\ systems = [i \in SysIds |-> NoSystem]
    /\ callerV = <<>>
    /\ owner = 0
    /\ last = NoCall
    /\ material \in {Some(m) : m \in Materials}
    /\ element \in
          {NewPlaneOrSolid(cls) : cls \in ElementClasses \ BoundaryClasses}
          \cup UNION {{NewBoundary(cls, val, direct, time_func, shadow_area) :
                          val \in BoundaryVals, direct \in Directs(cls),
                          time_func \in TimeFuncs, shadow_area \in BOOLEAN} :
                      cls \in BoundaryClasses}
    /\ elem_call = NoElemCall
    /\ namespace = LoadedPython
    /\ kept = <<>>

ElementNext ==
    \/ \E inp \in ElementInputs(element.cls), t \in Times(element.cls) :
          k_and_f_int(inp.X, inp.u, t)
    \/ \E inp \in ElementInputs(element.cls), t \in Times(element.cls) :
          k_int(inp.X, inp.u, t)
    \/ \E inp \in ElementInputs(element.cls), t \in Times(element.cls) :
          element_f_int(inp.X, inp.u, t)
    \/ \E inp \in ElementInputs(element.cls), t \in Times(element.cls) :
          m_and_vec_int(inp.X, inp.u, t)
    \/ \E inp \in ElementInputs(element.cls), t \in Times(element.cls) :
          m_int(inp.X, inp.u, t)
    \/ \E inp \in ElementInputs(element.cls), t \in Times(element.cls) :
          k_f_S_E_int(inp.X, inp.u, t)
    \/ foo

SpecElement == ElementInit /\ [][ElementNext]_vars

(***************************************************************************)
(* element.py: a caller that keeps the arrays of a result                  *)
(***************************************************************************)
\* lines 228, 251, 274 and 357: the arrays returned are the objects behind
\* self.K, self.f, self.S and self.E; the caller keeps those of the latest
\* call
keep_result ==
    /\ element.cls # ""
    /\ ReturnedNames(elem_call.op) # <<>>
    /\ elem_call.err = ""
    /\ kept' = [i \in DOMAIN elem_call.ret |->
                   [name |-> ReturnedNames(elem_call.op)[i],
                    val |-> elem_call.ret[i], first |-> elem_call.ret[i],
                    alias |-> TRUE]]
    /\ UNCHANGED <<material, element, elem_call, namespace>>
    /\ UNCHANGED <<nnls_vars, sys_vars>>

\* a material and a plane or solid element, just constructed
KeepInit ==
    /\ SolverIs(SolverIdle)
    /\ systems = [i \in SysIds |-> NoSystem]
    /\ callerV = <<>>
    /\ owner = 0
    /\ last = NoCall
    /\ material \in {Some(m) : m \in Materials}
    /\ element \in {NewPlaneOrSolid(cls) : cls \in PlaneAndSolidClasses}
    /\ elem_call = NoElemCall
    /\ namespace = LoadedPython
    /\ kept = <<>>

KeepNext ==
    \/ \E inp \in ElementInputs(element.cls) : k_f_S_E_int(inp.X, inp.u, 0)
    \/ \E inp \in ElementInputs(element.cls) : k_and_f_int(inp.X, inp.u, 0)
    \/ keep_result

SpecKeep == KeepInit /\ [][KeepNext]_vars

(***************************************************************************)
(* element.py: a bar whose material gets other parameters                  *)
(***************************************************************************)
\* the caller gives the Material object of the bar the parameters mat
set_material_parameters(mat) ==
    /\ material' = Some(mat)
    /\ elem_call' = [NoElemCall EXCEPT !.op = "set_material_parameters"]
    /\ UNCHANGED <<element, namespace>>
    /\ UNCHANGED <<nnls_vars, sys_vars, kept>>

\* a material and a bar, just constructed
BarInit ==
    /\ SolverIs(SolverIdle)
    /\ systems = [i \in SysIds |-> NoSystem]
    /\ callerV = <<>>
    /\ owner = 0
    /\ last = NoCall
    /\ material \in {Some(mat) : mat \in BarMaterials}
    /\ element = NewPlaneOrSolid("Bar2Dlumped")
    /\ elem_call = NoElemCall
    /\ namespace = LoadedPython
    /\ kept = <<>>

BarNext ==
    \/ foo
    \/ \E mat \in BarMaterials : set_material_parameters(mat)
    \/ \E inp \in ElementInputs("Bar2Dlumped") : k_and_f_int(inp.X, inp.u, 0)
    \/ \E inp \in ElementInputs("Bar2Dlumped") : k_int(inp.X, inp.u, 0)
    \/ \E inp \in ElementInputs("Bar2Dlumped") : m_and_vec_int(inp.X, inp.u, 0)
    \/ \E inp \in ElementInputs("Bar2Dlumped") : m_int(inp.X, inp.u, 0)

SpecBar == BarInit /\ [][BarNext]_vars

(***************************************************************************)
(* element.py: the boundary elements of faces under load                   *)
(***************************************************************************)
\* the argument direct: 'normal', and unit vectors
PatchDirects ==
    {NormalLiteral, Direction(<<0, 0, 1>>),
     [Direction(<<0, 0, 0>>) EXCEPT !.vec = <<Q(0), <<3, 5>>, <<4, 5>>>>]}

\* a boundary element of a face, just constructed
PatchInit ==
    /\ SolverIs(SolverIdle)
    /\ systems = [i \in SysIds |-> NoSystem]
    /\ callerV = <<>>
    /\ owner = 0
    /\ last = NoCall
    /\ material = None
    /\ element \in {NewBoundary(cls, val, direct, time_func, shadow_area) :
                       cls \in PatchClasses, val \in BoundaryVals,
                       direct \in PatchDirects, time_func \in TimeFuncs,
                       shadow_area \in BOOLEAN}
    /\ elem_call = NoElemCall
    /\ namespace = LoadedPython
    /\ kept = <<>>

PatchNext ==
    \/ \E inp \in PatchInputs(element.cls), t \in Times(element.cls) :
          k_and_f_int(inp.X, inp.u, t)
    \/ \E inp \in PatchInputs(element.cls), t \in Times(element.cls) :
          element_f_int(inp.X, inp.u, t)

SpecPatch == PatchInit /\ [][PatchNext]_vars

(***************************************************************************)
(* element.py: loading the module, and the calls afterwards                *)
(***************************************************************************)
\* lines 50-56: use_fortran = False, then the import in a try statement;
\* an exception the handler catches prints the notice, any other leaves
\* the module
import_f90_element(outcome) ==
    /\ namespace.pc = "import"
    /\ namespace' =
          IF outcome = "ok"
          THEN [namespace EXCEPT !.pc = "kernels", !.imported = outcome,
                                 !.use_fortran = TRUE]
          ELSE IF Caught(outcome)
          THEN [namespace EXCEPT !.pc = "kernels", !.imported = outcome,
                                 !.notices = @ + 1]
          ELSE [namespace EXCEPT !.pc = "failed", !.imported = outcome,
                                 !.err = outcome]
    /\ UNCHANGED <<material, element, elem_call>>
    /\ UNCHANGED <<nnls_vars, sys_vars, kept>>

\* lines 61 and 92: def scatter_matrix and def compute_B_matrix
def_kernels ==
    /\ namespace.pc = "kernels"
    /\ namespace' = [namespace EXCEPT !.pc = "rebind",
                                      !.bound = Bind(@, Kernels, "python")]
    /\ UNCHANGED <<material, element, elem_call>>
    /\ UNCHANGED <<nnls_vars, sys_vars, kept>>

\* lines 150-152: if use_fortran, the names are bound to the functions of
\* the extension
rebind_kernels ==
    /\ namespace.pc = "rebind"
    /\ namespace' = [namespace EXCEPT
                         !.pc = "classes",
                         !.bound = IF namespace.use_fortran
                                   THEN Bind(@, Kernels, "fortran") ELSE @]
    /\ UNCHANGED <<material, element, elem_call>>
    /\ UNCHANGED <<nnls_vars, sys_vars, kept>>

\* lines 155-2010: the next class statement
class_statement ==
    /\ namespace.pc = "classes"
    /\ namespace' = [namespace EXCEPT
                         !.pc = IF namespace.defined + 1 = Len(ClassBodies)
                                THEN "substitute" ELSE "classes",
                         !.defined = @ + 1,
                         !.bound = Bind(@, RoutinesOf(namespace.defined + 1),
                                        "python")]
    /\ UNCHANGED <<material, element, elem_call>>
    /\ UNCHANGED <<nnls_vars, sys_vars, kept>>

\* lines 2013-2073: if use_fortran, the wrappers of the Fortran routines
\* are assigned to the classes
substitute ==
    /\ namespace.pc = "substitute"
    /\ namespace' = [namespace EXCEPT
                         !.pc = "loaded",
                         !.bound = IF namespace.use_fortran
                                   THEN Bind(@, Substituted, "fortran") ELSE @]
    /\ UNCHANGED <<material, element, elem_call>>
    /\ UNCHANGED <<nnls_vars, sys_vars, kept>>

\* a call of the routine rt of the loaded module: the function the name is
\* bound to runs
call_routine(rt) ==
    /\ namespace.pc = "loaded"
    /\ elem_call' = [NoElemCall EXCEPT !.op = "call", !.args = rt,
                                       !.ret = <<namespace.bound[rt]>>]
    /\ UNCHANGED <<material, element, namespace>>
    /\ UNCHANGED <<nnls_vars, sys_vars, kept>>

LoadInit ==
    /\ SolverIs(SolverIdle)
    /\ systems = [i \in SysIds |-> NoSystem]
    /\ callerV = <<>>
    /\ owner = 0
    /\ last = NoCall
    /\ ElementIdle

LoadNext ==
    \/ \E outcome \in ImportOutcomes : import_f90_element(outcome)
    \/ def_kernels
    \/ rebind_kernels
    \/ class_statement
    \/ substitute
    \/ \E rt \in Routines : call_routine(rt)

SpecLoad == LoadInit /\ [][LoadNext]_vars

(***************************************************************************)
(* element.py: calls of scatter_matrix                                     *)
(***************************************************************************)
\* the numbers n of rows of the matrices of the calls
ScatterSizes == {1, 2}

ScatterEntries == {0 - 1, 0, 1}

\* the n x n matrices of the calls
SquareMatrices ==
    UNION {{[i \in 1 .. n |-> [j \in 1 .. n |-> Q(M[(i - 1) * n + j])]] :
               M \in [1 .. n * n -> ScatterEntries]} : n \in ScatterSizes}

\* lines 61-89: the call scatter_matrix(Mat, ndim) on the arguments chosen
scatter_matrix_call ==
    /\ elem_call.op = ""
    /\ elem_call' = [elem_call EXCEPT
                         !.op = "scatter_matrix",
                         !.ret = <<scatter_matrix(elem_call.args.Mat,
                                                  elem_call.args.ndim)>>]
    /\ UNCHANGED <<material, element, namespace>>
    /\ UNCHANGED <<nnls_vars, sys_vars, kept>>

ScatterInit ==
    /\ SolverIs(SolverIdle)
    /\ systems = [i \in SysIds |-> NoSystem]
    /\ callerV = <<>>
    /\ owner = 0
    /\ last = NoCall
    /\ material = None
    /\ element = [cls |-> ""]
    /\ elem_call \in {[NoElemCall EXCEPT !.args = [Mat |-> Mat, ndim |-> ndim]] :
                          Mat \in SquareMatrices, ndim \in {2, 3}}
    /\ namespace = LoadedPython
    /\ kept = <<>>

ScatterNext == scatter_matrix_call

SpecScatter == ScatterInit /\ [][ScatterNext]_vars

(***************************************************************************)
(* sparse_nnls: properties                                                 *)
(***************************************************************************)
\* ||rv|| <= tau * ||b||
WithinTolerance(rv, bv, t) ==
    QLe(NormSq(rv),
        QMul(Norm(t[1] * t[1], t[2] * t[2]), NormSq([k \in Rows |-> Q(bv[k])])))

\* the vector holding the weights w at the indices idx and zero elsewhere
Scatter(idx, w, n) ==
    Array(LAMBDA k :
            IF \E p \in 1 .. Len(idx) : idx[p] = k /\ p <= Len(w)
            THEN w[CHOOSE p \in 1 .. Len(idx) : idx[p] = k]
            ELSE Q(0), n)

AllElements(Gm) == [k \in Elements(Gm) |-> TRUE]

\* C1: whenever sparse_nnls returns, the vector holding the returned weights
\* at the returned indices has a residual norm of at most tau * ||b||.
C1_ReturnedSolutionWithinTolerance ==
    pc = "done" =>
        WithinTolerance(
            Residual(G, b, AllElements(G), Scatter(indices, xi_red, NoOfElements(G))),
            b, tau)

\* the next pass of the while loop chooses an element that is active already
\* and accepts the trial vector it has: r, xi and active_set come back
\* unchanged, and so does every later pass
Stalled ==
    /\ pc = "while"
    /\ AboveTolerance(r, b, tau)
    /\ LET mu == Array(LAMBDA k :
                    QSum(Tabulate(LAMBDA i : QMul(Q(G[i - 1][k]), r[i - 1]),
                                  no_of_rows)), NoOfElements(G))
           tv == TrialVector(G, b, active_set)
       IN  /\ active_set[ArgMax(mu)]
           /\ tv.ok
           /\ FullPositive(tv.val, active_set)
           /\ tv.val = xi

\* C2 (as stated): for every input sparse_nnls returns normally in the end;
\* it neither iterates forever nor aborts with an error.
C2_EventuallyReturns == ~Stalled /\ pc # "error"

\* C2 (amended): sparse_nnls returns only by the residual-tolerance
\* criterion: when it has returned, the residual r of its loop satisfies
\* ||r|| <= tau * ||b||.
C2_ReturnsOnlyWithinTolerance ==
    pc = "done" => WithinTolerance(r, b, tau)

C2_Witness ==
    /\ pc = "done"
    /\ \E k \in Elements(G) : active_set[k]
    /\ r # [i \in Rows |-> Q(0)]

\* C3: every returned weight is non-negative, and neither result array is
\* longer than the number of columns of G.
C3_WeightsNonNegative ==
    pc = "done" =>
        /\ \A p \in 1 .. Len(xi_red) : QLe(Q(0), xi_red[p])
        /\ Len(xi_red) <= NoOfElements(G)
        /\ Len(indices) <= NoOfElements(G)

\* the solver has returned after it had removed the first element it chose
\* (which has the largest G.T @ b) from an active set of two
C3_Witness ==
    /\ pc = "done"
    /\ Len(xi_red) = 1
    /\ LET mu0 == Array(LAMBDA k :
                    ISum(Tabulate(LAMBDA i : G[i - 1][k] * b[i - 1], no_of_rows)),
                    NoOfElements(G))
       IN  \E k \in Elements(G) :
              /\ ~active_set[k]
              /\ mu0[k] > 0
              /\ \A j \in Elements(G) : j # k => mu0[j] < mu0[k]

\* C4: indices lists exactly the positions where xi is non-zero, xi_red has
\* the same length, and xi_red[k] is the value of xi at indices[k].
C4_ArraysCorrespond ==
    pc = "done" =>
        /\ \A k \in Elements(G) :
              (xi[k] # Q(0)) <=> (\E p \in 1 .. Len(indices) : indices[p] = k)
        /\ Len(xi_red) = Len(indices)
        /\ \A p \in 1 .. Len(indices) :
              p <= Len(xi_red) /\ xi_red[p] = xi[indices[p]]

\* the non-negative vectors x with b = G x whose support selects linearly
\* independent columns of G
SupportSeq(x) == Ascending(LAMBDA k : x[k] # 0, Cardinality(DOMAIN x))

KnownSolutions(Gm, bv) ==
    {x \in [Elements(Gm) -> 0 .. MaxWeight] :
        /\ \A i \in Rows :
              ISum(Tabulate(LAMBDA k : Gm[i][k - 1] * x[k - 1], NoOfElements(Gm)))
                 = bv[i]
        /\ Det(Gram(Gm, SupportSeq(x))) # 0}

IndependentColumns(Gm) ==
    Det(Gram(Gm, Tabulate(LAMBDA p : p - 1, NoOfElements(Gm)))) # 0

IsCall(op, i) == last'.op = op /\ last'.self = i

\* C6: a call reduce_mechanical_system_ecsw(sys, V, overwrite=False) leaves
\* every attribute of the given system (class, V, weights, damping matrix,
\* cached mass matrix, assembly strategy) as it was and returns another
\* object; a reduce_mesh call on one system leaves every other system as it
\* was.
C6_OriginalUnchanged ==
    [][/\ \A i \in SysIds, a \in AssemblyArgs :
             (/\ IsCall("reduce_mechanical_system_ecsw", i)
              /\ reduce_mechanical_system_ecsw(i, FALSE, a)) =>
                 /\ systems'[i] = systems[i]
                 /\ BasisOf(systems[i])' = BasisOf(systems[i])
                 /\ last'.ret # i
       /\ \A i \in SysIds, a \in AssemblyArgs :
             (/\ IsCall("reduce_mechanical_system_ecsw", i)
              /\ reduce_mechanical_system_ecsw_raises(i, FALSE, a)) =>
                 systems' = systems
       /\ \A j \in SysIds :
             (/\ IsCall("reduce_mesh", j)
              /\ (reduce_mesh(j) \/ reduce_mesh_raises(j) \/ reduce_mesh_hangs(j))) =>
                 \A i \in SysIds \ {j} :
                     /\ systems'[i] = systems[i]
                     /\ BasisOf(systems[i])' = BasisOf(systems[i])]_vars

\* reduce_mesh has returned for the copy, next to the unreduced original
\* with its cached mass matrix
C6_Witness ==
    /\ last.op = "reduce_mesh" /\ ~last.raised /\ owner = 0
    /\ \E i \in SysIds :
          /\ i # last.self
          /\ systems[i].cls = "MechanicalSystem"
          /\ systems[i].M_constr.set
    /\ systems[last.self].weights.set

\* C7: a call reduce_mechanical_system_ecsw(sys, V, overwrite=True) that
\* returns, returns the object it was given, and that object is an
\* ECSWSystem then.
C7_OverwriteReturnsGivenObject ==
    [][\A i \in SysIds, a \in AssemblyArgs :
          (/\ IsCall("reduce_mechanical_system_ecsw", i)
           /\ reduce_mechanical_system_ecsw(i, TRUE, a)) =>
              /\ last'.ret = i
              /\ systems'[i].cls = "ECSWSystem"]_vars

\* the only system there is has been reduced in place
C7_Witness ==
    /\ last.op = "reduce_mechanical_system_ecsw" /\ ~last.raised
    /\ last.ret = last.self
    /\ systems[last.ret].cls = "ECSWSystem"
    /\ \A j \in SysIds \ {last.ret} : systems[j].cls = ""

\* C8: when reduce_mechanical_system_ecsw returns, the resulting system has
\* no weights, no weight indices and no cached constrained mass matrix,
\* and its assembly strategy is the argument `assembly`.
C8_ResetOnReduction ==
    [][\A i \in SysIds, ow \in BOOLEAN, a \in AssemblyArgs :
          (/\ IsCall("reduce_mechanical_system_ecsw", i)
           /\ reduce_mechanical_system_ecsw(i, ow, a)) =>
              /\ systems'[last'.ret].weights = None
              /\ systems'[last'.ret].weight_idx = None
              /\ systems'[last'.ret].M_constr = None
              /\ systems'[last'.ret].assembly_type = Some(a)]_vars

\* a system that had been mesh-reduced has been hyper-reduced once more
C8_Witness ==
    /\ last.op = "reduce_mechanical_system_ecsw" /\ ~last.raised
    /\ last.had_weights
    /\ systems[last.ret].weights = None

\* C9: when reduce_mesh returns, the stored weight indices and weights are
\* the returned ones; K, f_int, K_and_f and export_paraview leave them as
\* they are.
C9_WeightsStored ==
    [][/\ \A i \in SysIds :
             (IsCall("reduce_mesh", i) /\ reduce_mesh(i)) =>
                 /\ systems'[i].weight_idx = Some(last'.idx)
                 /\ systems'[i].weights = Some(last'.w)
       /\ \A i \in SysIds :
             \A op \in {"K", "f_int", "K_and_f", "export_paraview"} :
               (/\ IsCall(op, i)
                /\ \/ K(i, Arg(None)) \/ f_int(i, Arg(None)) \/ K_and_f(i, Arg(None))
                   \/ export_paraview(i, None)) =>
                   /\ systems'[i].weight_idx = systems[i].weight_idx
                   /\ systems'[i].weights = systems[i].weights]_vars

\* an accessor has been called on a system that holds the weights of its
\* mesh reduction
C9_Witness ==
    /\ last.op \in {"K", "f_int", "K_and_f", "export_paraview"}
    /\ systems[last.self].weights.set
    /\ systems[last.self].weight_idx.set
    /\ Len(systems[last.self].weight_idx.val) = 2

\* C10: the V_unconstr of every hyper-reduced system is the unconstrained
\* expansion of its V, and a change of the array the caller passed as V
\* leaves the V of every system as it is.
C10_UnconstrainedBasis ==
    /\ [](\A i \in SysIds :
             systems[i].cls = "ECSWSystem" =>
                 systems[i].V_unconstr =
                     Some(UnconstrainVec(systems[i].dirichlet, BasisOf(systems[i]))))
    /\ [][caller_writes_V =>
             \A i \in SysIds :
                 BasisOf(systems[i])' = BasisOf(systems[i])]_vars

\* the caller has changed its array after a system was reduced with it
C10_Witness ==
    /\ last.op = "caller_writes_V"
    /\ \E i \in SysIds :
          /\ systems[i].cls = "ECSWSystem"
          /\ BasisOf(systems[i]) # callerV
          /\ systems[i].V_unconstr =
                Some(UnconstrainVec(systems[i].dirichlet, BasisOf(systems[i])))

(***************************************************************************)
(* ECSWSystem accessors and export: properties                             *)
(***************************************************************************)
AccessorNames == {"K_and_f", "K", "f_int"}

C12_DefaultsToZeroVector ==
    [][\A name \in AccessorNames, i \in SysIds :
          (IsCall(name, i) /\ Accessor(name, i, NoArg)) =>
              LET explicit == AccessorCall(name, systems[i],
                                           Arg(Some(DefaultU(systems[i]))))
              IN  /\ last'.err = explicit.err
                  /\ last'.routine = explicit.routine
                  /\ last'.u = explicit.u]_vars


\* the field of length no_of_elements holding weights[k] at weight_idx[k]
\* and 0 at every other element
IsWeightField(data, s) ==
    /\ DOMAIN data = 0 .. s.no_of_elements - 1
    /\ \A k \in 1 .. Len(s.weight_idx.val) :
          data[s.weight_idx.val[k]] = s.weights.val[k]
    /\ \A e \in DOMAIN data :
          (\A k \in 1 .. Len(s.weight_idx.val) : s.weight_idx.val[k] # e) =>
              data[e] = Q(0)

\* C13: export_paraview of a system holding the weights of reduce_mesh hands
\* the inherited export the caller's fields followed by one weight field of
\* length no_of_elements (weights[k] at element weight_idx[k], 0 elsewhere),
\* and leaves the caller's field_list as it was.
C13_ExportsWeightField ==
    [][\A field_list \in FieldLists :
          (/\ IsCall("export_paraview", 1)
           /\ systems[1].weights.set
           /\ export_paraview(1, field_list)) =>
              /\ ~last'.raised
              /\ Len(last'.fields) = Len(field_list.val) + 1
              /\ SubSeq(last'.fields, 1, Len(field_list.val)) = field_list.val
              /\ IsWeightField(last'.fields[Len(last'.fields)].data, systems[1])
              /\ last'.field_list = field_list]_vars

\* C19: scatter_matrix(Mat, ndim) of an n x n matrix Mat is the
\* (n*ndim) x (n*ndim) matrix whose entry at (ndim*i+k, ndim*j+l) is Mat[i,j]
\* when k = l and zero when k # l.
C19_ScatterIsKroneckerWithIdentity ==
    elem_call.op = "scatter_matrix" =>
        LET Mat == elem_call.args.Mat
            ndim == elem_call.args.ndim
            n == Len(Mat)
            scattered == elem_call.ret[1]
        IN  /\ Len(scattered) = n * ndim
            /\ \A row \in 1 .. n * ndim : Len(scattered[row]) = n * ndim
            /\ \A i \in 0 .. n - 1, j \in 0 .. n - 1, k \in 0 .. ndim - 1,
                  l \in 0 .. ndim - 1 :
                  scattered[ndim * i + k + 1][ndim * j + l + 1] =
                      IF k = l THEN Mat[i + 1][j + 1] ELSE Q(0)

\* a 2 x 2 matrix without a zero entry was scattered to three dimensions
C19_Witness ==
    /\ elem_call.op = "scatter_matrix"
    /\ elem_call.args.ndim = 3
    /\ Len(elem_call.args.Mat) = 2
    /\ \A i \in 1 .. 2, j \in 1 .. 2 : elem_call.args.Mat[i][j] # Q(0)
    /\ elem_call.ret[1][4][1] = elem_call.args.Mat[2][1]

\* the arrays a method returned are all zero: the stiffness and mass
\* matrices, the force vector, and the stresses and strains
ZeroReturn(op, ret) ==
    IF op \in {"k_and_f_int", "m_and_vec_int"}
    THEN IsZeroMat(ret[1].val) /\ IsZeroVec(ret[2].val)
    ELSE IF op \in {"k_int", "m_int"} THEN IsZeroMat(ret[1].val)
    ELSE IF op = "f_int" THEN IsZeroVec(ret[1].val)
    ELSE /\ IsZeroMat(ret[1].val) /\ IsZeroVec(ret[2].val)
         /\ IsZeroMat(ret[3].val) /\ IsZeroMat(ret[4].val)

\* C16: every stiffness, force and mass evaluation of a Prism6 element, for
\* any inputs and after any calls, returns without an error and returns
\* zero operators.
C16_Prism6ReturnsZeroOperators ==
    (element.cls = "Prism6" /\ elem_call.op \in ElementMethods) =>
        /\ elem_call.err = ""
        /\ ZeroReturn(elem_call.op, elem_call.ret)

\* a Prism6 element returned stiffness and force for a displaced, regular
\* prism
C16_Witness ==
    /\ element.cls = "Prism6"
    /\ elem_call.op = "k_and_f_int"
    /\ elem_call.err = ""
    /\ ~IsZeroVec(FloatVec(elem_call.args.X))
    /\ ~IsZeroVec(FloatVec(elem_call.args.u))
    /\ Len(elem_call.ret[1].val) = 18

TensorMethods == {"k_and_f_int", "k_int", "f_int", "k_f_S_E_int"}

\* an element constructed as e was, on which no method has been called
\* since (a bar has read the material with foo if e has)
FreshLike(e) ==
    IF e.cls \in BoundaryClasses
    THEN [e EXCEPT !.f = Some(ZeroVec(BoundaryDofs(e.cls))),
                   !.K = Some(ZeroMat(BoundaryDofs(e.cls), BoundaryDofs(e.cls))),
                   !.M = Some(ZeroMat(BoundaryDofs(e.cls), BoundaryDofs(e.cls)))]
    ELSE [NewPlaneOrSolid(e.cls) EXCEPT
             !.e_modul = e.e_modul, !.crosssec = e.crosssec, !.rho = e.rho,
             !.attrs = @ \cup (e.attrs \cap {"e_modul", "crosssec", "rho"})]

\* C14 (as stated): an element keeps no history: whatever was called on it
\* before, the K, f, S and E of an evaluation with (X, u, t), and what the
\* call returns, are those of a freshly constructed element for (X, u, t).
C14_NoHistoryAcrossCalls ==
    elem_call.op \in TensorMethods =>
        LET fresh == Method(elem_call.op, FreshLike(element), material.val,
                            elem_call.args.X, elem_call.args.u, elem_call.args.t)
        IN  /\ elem_call.err = fresh.err
            /\ elem_call.ret = fresh.ret
            /\ element.K = fresh.e.K
            /\ element.f = fresh.e.f
            /\ element.S = fresh.e.S
            /\ element.E = fresh.e.E

\* the methods that evaluate the force of a boundary element
ForceMethods == {"k_and_f_int", "f_int"}

\* the force vector of the nodes for the strategy the arguments direct and
\* shadow of the constructor ask for: the normal-force vectors themselves
\* for 'normal', else the direction d times the magnitude of each, or times
\* (d . f_node) / ||d|| with shadow_area
ProjectedAsSpecified(direct, shadow, f_mat) ==
    IF direct.str = "normal"
    THEN Flatten(f_mat)
    ELSE Flatten([i \in 1 .. Len(f_mat) |->
                     VecScale(direct.vec,
                              IF shadow
                              THEN QDiv(Dot(direct.vec, f_mat[i]),
                                        QSqrt(Dot(direct.vec, direct.vec)))
                              ELSE QSqrt(Dot(f_mat[i], f_mat[i])))])

\* C18 (as stated): the force-projection strategy of a boundary element is
\* fixed at construction by (direct, shadow_area): a force evaluation returns
\* the normal-force vectors unchanged for direct 'normal', whatever
\* shadow_area is, and the projections on d for a direction d, each times
\* val and time_func(t).
C18_ProjectionFixedAtConstruction ==
    (element.cls \in BoundaryClasses /\ elem_call.op \in ForceMethods) =>
        /\ elem_call.err = ""
        /\ element.f.val =
              VecScale(VecScale(
                  ProjectedAsSpecified(element.direct.val,
                                       element.f_proj = "f_proj_a_shadow",
                                       BoundaryFMat(element.cls, elem_call.args.X,
                                                    elem_call.args.u)),
                  element.val.val),
                  TimeFunc(element.time_func, elem_call.args.t))

NonDegenerate(cls, mat, X) ==
    IF cls = "Tri3" THEN Tri3MassTable[mat][X].A0 # Q(0)
    ELSE IF cls = "Tri6"
    THEN \A n \in 1 .. Len(Tri6GaussPoints) :
            Tri6Gradient(X, Tri6GaussPoints[n][1], Tri6GaussPoints[n][2],
                         Tri6GaussPoints[n][3]).det # Q(0)
    ELSE Tet4MassTable[mat][X][1][1] # Q(0)

\* the deformation gradient F and the strain E at the integration points of
\* an evaluation with (X, u)
PointsOf(cls, mat, X, u) ==
    IF cls = "Tri3" THEN Tri3Table[mat][[X |-> X, u |-> u]]
    ELSE IF cls = "Tri6"
    THEN [F |-> [n \in 1 .. Len(Tri6GaussPoints) |->
                    Tri6Table[mat][[X |-> X, u |-> u]][n].F],
          E_gp |-> [n \in 1 .. Len(Tri6GaussPoints) |->
                    Tri6Table[mat][[X |-> X, u |-> u]][n].E]]
    ELSE Tet4Table[mat][[X |-> X, u |-> u]]

\* the force vector a method of TensorMethods returned
ForceReturned(op, ret) == IF op = "f_int" THEN ret[1].val ELSE ret[2].val

\* an evaluation of the force of a plane or solid element with all nodal
\* displacements zero and a reference geometry that is not degenerate
UndeformedEvaluation ==
    /\ element.cls \in PlaneAndSolidClasses
    /\ elem_call.op \in TensorMethods \ {"k_int"}
    /\ elem_call.err = ""
    /\ IsZeroVec(FloatVec(elem_call.args.u))
    /\ NonDegenerate(element.cls, material.val, elem_call.args.X)

\* C20 (as stated): for a plane or solid element with non-degenerate
\* reference geometry and all nodal displacements zero, the deformation
\* gradient at every integration point is the identity, the Green-Lagrange
\* strain is zero and the internal force vector is zero.
C20_UndeformedHasNoStrainAndNoForce ==
    UndeformedEvaluation =>
        LET pts == PointsOf(element.cls, material.val, elem_call.args.X,
                            elem_call.args.u)
            ndim == IF element.cls = "Tet4" THEN 3 ELSE 2
        IN  /\ \A n \in 1 .. Len(pts.F) :
                  /\ pts.F[n] = Eye(ndim)
                  /\ IsZeroMat(pts.E_gp[n])
            /\ IsZeroVec(ForceReturned(elem_call.op, elem_call.ret))
            /\ IsZeroVec(element.f.val)

\* A == A.T entry by entry, as floats compare: nan equals nothing
IsSymmetric(A) ==
    \A i, j \in 1 .. Len(A) : A[i][j] = A[j][i] /\ ~IsNaN(A[i][j])

\* the methods that return the stiffness matrix, as their first result
StiffnessMethods == {"k_and_f_int", "k_int", "k_f_S_E_int"}

\* the reference geometry X suits the class: a plane or solid element is
\* not degenerate, a bar has a length; any X suits the other classes
RegularReference(cls, mat, X) ==
    IF cls \in PlaneAndSolidClasses THEN NonDegenerate(cls, mat.val, X)
    ELSE IF cls = "Bar2Dlumped" THEN <<X[1], X[2]>> # <<X[3], X[4]>>
    ELSE TRUE

\* C21 (as stated): for every element and every displacement, zero or not,
\* the stiffness matrix the element computes (on a reference geometry that
\* suits it) is symmetric: K[i,j] = K[j,i] for all i, j.
C21_StiffnessSymmetric ==
    (/\ elem_call.op \in StiffnessMethods
     /\ elem_call.err = ""
     /\ RegularReference(element.cls, material, elem_call.args.X)) =>
        IsSymmetric(elem_call.ret[1].val)

\* the translation vectors added to the displacement of every node
Translations(cls) == IF cls = "Tet4" THEN {<<1, 0, 2>>} ELSE {<<1, 2>>}

\* u with the vector c added to the displacement of every node
Translated(u, c) == [k \in 1 .. Len(u) |-> u[k] + c[((k - 1) % Len(c)) + 1]]

\* the tensors of the classes for the translated inputs of the model
TranslatedTable ==
    [cls \in PlaneAndSolidClasses |->
        [mat \in Materials |->
            [inp \in ElementInputs(cls) |->
                [c \in Translations(cls) |->
                    IF cls = "Tri3" THEN Tri3Tensors(mat, inp.X, Translated(inp.u, c))
                    ELSE IF cls = "Tri6"
                    THEN Tri6Points(mat, inp.X, Translated(inp.u, c))
                    ELSE Tet4Tensors(mat, inp.X, Translated(inp.u, c))]]]]

\* the Green-Lagrange strains at the integration points, of the tensors T of
\* an evaluation
StrainsOf(cls, T) ==
    IF cls = "Tri6" THEN [n \in 1 .. Len(T) |-> T[n].E] ELSE T.E_gp

\* the force vector self.f after _compute_tensors of self gave T
ForceOf(self, T) == IF self.cls = "Tri6" THEN Tri6Tensors(self, T).f ELSE T.f

\* the tensors of the evaluation with inp
TensorsOf(cls, mat, inp) ==
    IF cls = "Tri3" THEN Tri3Table[mat][inp]
    ELSE IF cls = "Tri6" THEN Tri6Table[mat][inp]
    ELSE Tet4Table[mat][inp]

\* an evaluation of the tensors of a plane or solid element is the step
IsTensorCall ==
    /\ element.cls \in PlaneAndSolidClasses
    /\ elem_call'.op \in TensorMethods

BarEvaluated ==
    /\ element.cls = "Bar2Dlumped"
    /\ elem_call.op \in {"k_and_f_int", "k_int", "m_int", "m_and_vec_int"}
    /\ elem_call.err = ""

\* the multiples of the axis vector of the bar X, given to both nodes
AxisTranslations(X) ==
    {FloatVec(<<c * (X[3] - X[1]), c * (X[4] - X[2]),
                c * (X[3] - X[1]), c * (X[4] - X[2])>>) : c \in {0 - 1, 1, 2}}

\* C23: for a Bar2Dlumped element of non-zero length, the stiffness matrix
\* times a rigid translation along the axis of the bar is the zero vector,
\* and the stiffness matrix and the mass matrix are symmetric.
C23_BarRigidTranslationAndSymmetry ==
    (BarEvaluated /\ RegularReference("Bar2Dlumped", material, elem_call.args.X)) =>
        /\ \A v \in AxisTranslations(elem_call.args.X) :
              IsZeroVec(MatVec(element.K.val, v))
        /\ IsSymmetric(element.K.val)
        /\ IsSymmetric(element.M.val)
        /\ elem_call.op \in StiffnessMethods => elem_call.ret[1] = element.K
        /\ elem_call.op \notin StiffnessMethods => elem_call.ret[1] = element.M

\* an oblique bar of length 5 returned its stiffness: not zero, and zero
\* times the translations along its axis
C23_Witness ==
    /\ BarEvaluated
    /\ elem_call.op = "k_and_f_int"
    /\ elem_call.args.X = <<0, 0, 3, 4>>
    /\ ~IsZeroMat(elem_call.ret[1].val)
    /\ ~IsZeroMat(element.M.val)
    /\ \A v \in AxisTranslations(elem_call.args.X) :
          ~IsZeroVec(v) /\ IsZeroVec(MatVec(elem_call.ret[1].val, v))

\* the sum of the nodal forces of the force vector f_vec of ndim entries a node
TotalForce(f_vec, ndim) ==
    Tabulate(LAMBDA c :
        QSum(Tabulate(LAMBDA i : f_vec[(i - 1) * ndim + c], Len(f_vec) \div ndim)),
        ndim)

\* the area of the flat patch with the nodes X + u times its unit normal:
\* half the cross product of two edges of a triangle, of the diagonals of a
\* quadrilateral
AreaVector(cls, X, u) ==
    LET x == DeformedNodes(X, u)
        from(p, q) == VecAdd(x[q], VecScale(x[p], Q(0 - 1)))
    IN  IF cls \in {"Tri3Boundary", "Tri6Boundary"}
        THEN VecScale(Cross(from(1, 2), from(1, 3)), <<1, 2>>)
        ELSE VecScale(Cross(from(1, 3), from(2, 4)), <<1, 2>>)

\* a force evaluation of a patch element under a constant load: the default
\* time function, and no shadow area
PatchLoaded ==
    /\ element.cls \in PatchClasses
    /\ elem_call.op \in ForceMethods
    /\ elem_call.err = ""
    /\ element.time_func = "const_func"
    /\ element.f_proj # "f_proj_a_shadow"

\* C24 (as stated): for a flat patch element (Tri3Boundary, Tri6Boundary,
\* Quad4Boundary, Quad8Boundary) under a constant load value with the
\* default time function, the sum of the nodal forces has the magnitude
\* value times patch area; it acts along the normal for direct 'normal' and
\* along the direction for a unit direction without shadow area.
C24_TotalForceIsValueTimesArea ==
    PatchLoaded =>
        LET total == TotalForce(element.f.val, 3)
            area == AreaVector(element.cls, elem_call.args.X, elem_call.args.u)
        IN  IF element.f_proj = "flatten"
            THEN \E sign \in {0 - 1, 1} :
                    total = VecScale(area, QMul(Q(sign), element.val.val))
            ELSE total = VecScale(element.direct.val.vec,
                                  QMul(element.val.val, VecNorm(area)))

\* the squared magnitude of the sum of the nodal forces that the element
\* gives for the arguments of the last call when its f_proj is f_proj
MagnitudeSqWith(f_proj) ==
    LET force == BoundaryForce([element EXCEPT !.f_proj = f_proj],
                               elem_call.args.X, elem_call.args.u, elem_call.args.t).val
        total == TotalForce(force, 3)
    IN  Dot(total, total)

\* a force evaluation of a patch element with an explicit direction that is
\* not aligned with the normal of the patch (a patch tilted against the
\* direction), the force being that of the strategy of the element
TiltedEvaluation ==
    /\ element.cls \in PatchClasses
    /\ elem_call.op \in ForceMethods
    /\ elem_call.err = ""
    /\ element.f_proj \in {"f_proj_a", "f_proj_a_shadow"}
    /\ ~IsZeroVec(Cross(element.direct.val.vec,
                        AreaVector(element.cls, elem_call.args.X, elem_call.args.u)))
    /\ LET total == TotalForce(element.f.val, 3)
       IN  Dot(total, total) = MagnitudeSqWith(element.f_proj)

\* the load of the last call is not zero: self.val * self.time_func(t)
LoadNotZero ==
    QMul(element.val.val, TimeFunc(element.time_func, elem_call.args.t)) # Q(0)

\* C25 (as stated): for a tilted flat patch and an explicit direction not
\* aligned with the patch normal, the magnitude of the total force with
\* shadow_area on is strictly smaller than with shadow_area off, all other
\* parameters equal.
C25_ShadowForceStrictlySmaller ==
    TiltedEvaluation =>
        QLt(MagnitudeSqWith("f_proj_a_shadow"), MagnitudeSqWith("f_proj_a"))

\* C25 (amended): the same whenever the load val * time_func(t) is not
\* zero; with a zero load both forces are zero.
C25_ShadowForceSmallerUnderLoad ==
    (TiltedEvaluation /\ LoadNotZero) =>
        QLt(MagnitudeSqWith("f_proj_a_shadow"), MagnitudeSqWith("f_proj_a"))

\* a loaded patch with shadow_area on, tilted against the direction but not
\* parallel to it: its total force is not zero and smaller than without
\* shadow area
C25_Witness ==
    /\ TiltedEvaluation
    /\ LoadNotZero
    /\ element.f_proj = "f_proj_a_shadow"
    /\ ~IsZeroVec(TotalForce(element.f.val, 3))
    /\ QLt(MagnitudeSqWith("f_proj_a_shadow"), MagnitudeSqWith("f_proj_a"))


(***************************************************************************)
(* C26: loading the element module never fails because of the              *)
(* acceleration layer: when the import of the native extension raises, the *)
(* module finishes loading with scatter_matrix, compute_B_matrix and every *)
(* tensor and mass routine of every element bound to the Python function;  *)
(* the choice between native and Python routines is made once while the    *)
(* module loads and never changes afterwards, and a call runs the function *)
(* chosen then.                                                            *)
(***************************************************************************)
\* every routine of the module is the Python one
AllPython(ns) == \A rt \in Routines : ns.bound[rt] = "python"

LoadStep ==
    /\ namespace'.pc # "failed"
    /\ namespace.pc # "import" => namespace'.use_fortran = namespace.use_fortran
    /\ (namespace'.pc = "loaded" /\ namespace'.imported # "ok")
          => AllPython(namespace') /\ ~namespace'.use_fortran
    /\ namespace.pc = "loaded"
          => /\ namespace' = namespace
             /\ elem_call'.op = "call"
                   => elem_call'.ret = <<namespace.bound[elem_call'.args]>>

C26_LoadNeverFailsAndChoiceFixed == [][LoadStep]_vars

\* the import raised, the module is loaded and a routine has been called
C26_Witness ==
    /\ namespace.pc = "loaded"
    /\ namespace.imported = "RuntimeError"
    /\ elem_call.op = "call"
    /\ elem_call.ret = <<"python">>


(***************************************************************************)
(* C27: for every element variant (plane, solid, bar and boundary          *)
(* elements) k_f_S_E_int(X, u, t) on a constructed element returns four    *)
(* results, the stiffness, the force, the nodal stress table and the nodal *)
(* strain table, and does not fail on a missing buffer.                    *)
(***************************************************************************)
\* the latest call returned the four arrays
FourResults ==
    /\ elem_call.err = ""
    /\ Len(elem_call.ret) = 4
    /\ \A i \in 1 .. 4 : elem_call.ret[i] # None

C27_CombinedReturnsFourResults ==
    elem_call.op = "k_f_S_E_int" => FourResults


(***************************************************************************)
(* C28: each outer iteration of sparse_nnls enlarges the active set by     *)
(* exactly one element index, the index that maximizes G^T r for the       *)
(* current residual r, an index that was not in the active set before, so  *)
(* that the residual loop makes progress in every iteration.               *)
(***************************************************************************)
\* line 71: the entry k of mu = G.T @ r
MuEntry(k) ==
    QSum(Tabulate(LAMBDA i : QMul(Q(G[i - 1][k]), r[i - 1]), no_of_rows))

NoOfActive(act) == Cardinality({k \in DOMAIN act : act[k]})

\* the step of lines 70-74: from the loop test into the inner loop
IsOuterIteration == pc = "while" /\ pc' = "inner"

\* the element idx has the largest entry of mu, the first of them
IsFirstLargest(idx) ==
    /\ \A j \in Elements(G) : QLe(MuEntry(j), MuEntry(idx))
    /\ \A j \in Elements(G) : j < idx => QLt(MuEntry(j), MuEntry(idx))

\* as stated: the index is new and the active set grows by one
C28_EachIterationEnlargesActiveSet ==
    [][IsOuterIteration =>
          \E idx \in Elements(G) :
             /\ IsFirstLargest(idx)
             /\ ~active_set[idx]
             /\ active_set' = [active_set EXCEPT ![idx] = TRUE]]_vars

\* C28 as the code has it: each outer iteration marks the first index with
\* the largest entry of G^T r as active and changes no other entry; the
\* active set grows by one when that index was not active and stays as it
\* was when the index was active already
C28_EachIterationMarksLargest ==
    [][IsOuterIteration =>
          \E idx \in Elements(G) :
             /\ IsFirstLargest(idx)
             /\ active_set' = [active_set EXCEPT ![idx] = TRUE]
             /\ NoOfActive(active_set') =
                   NoOfActive(active_set) + (IF active_set[idx] THEN 0 ELSE 1)]_vars

\* a second outer iteration has added a second element to the active set
C28_Witness ==
    /\ pc = "inner"
    /\ NoOfActive(active_set) = 2
    /\ xi # Zeros(NoOfElements(G))


(***************************************************************************)
(* C29: for a Bar2Dlumped element one run of the setup call foo is enough: *)
(* after it any number of stiffness and mass evaluations succeed without   *)
(* running it again, and they use the material values read by the setup    *)
(* call; an evaluation before the first setup call fails and returns no    *)
(* result.                                                                 *)
(***************************************************************************)
BarEvaluations == {"k_and_f_int", "k_int", "m_and_vec_int", "m_int"}

\* the parameters the bar holds: None before foo
BarSetup(self) == <<self.e_modul, self.crosssec, self.rho>>

\* the stiffness and the mass for the parameters the bar e holds
BarOf(e, X) == BarKAndM(e.e_modul.val, e.crosssec.val, e.rho.val, X)

\* the matrix the evaluation name gives first: the stiffness or the mass
BarResultOf(name, km) ==
    IF name \in {"k_and_f_int", "k_int"} THEN Some(km.K) ELSE Some(km.M)

BarStep ==
    /\ elem_call'.op = "foo" =>
          BarSetup(element') = <<Some(material.val.E), Some(material.val.crossec),
                                 Some(material.val.rho)>>
    /\ elem_call'.op # "foo" => BarSetup(element') = BarSetup(element)
    /\ elem_call'.op \in BarEvaluations =>
          IF BarSetup(element) = <<None, None, None>>
          THEN elem_call'.err # "" /\ elem_call'.ret = <<>> /\ element' = element
          ELSE /\ elem_call'.err = ""
               /\ elem_call'.ret[1] =
                     BarResultOf(elem_call'.op, BarOf(element, elem_call'.args.X))
               /\ element'.K = Some(BarOf(element, elem_call'.args.X).K)
               /\ element'.M = Some(BarOf(element, elem_call'.args.X).M)

C29_OneSetupCallIsEnough == [][BarStep]_vars

\* the bar was set up, the material got other parameters afterwards and the
\* bar was evaluated without another setup call
C29_Witness ==
    /\ elem_call.op \in BarEvaluations
    /\ elem_call.err = ""
    /\ element.e_modul # None
    /\ element.e_modul # Some(material.val.E)
    /\ element.K # Some(ZeroMat(4, 4))
    /\ element.M # Some(ZeroMat(4, 4))


(***************************************************************************)
(* C30: for the Gauss-integrated elements (Tri6, Quad4, Quad8, Tet10,      *)
(* Hexa8, Hexa20) the arrays K, f, S and E returned by an evaluation are   *)
(* the buffers of the element: after a later evaluation of the same        *)
(* element the arrays returned earlier hold the values of the later call;  *)
(* Tri3 and Tet4 produce new arrays in every call, and the arrays returned *)
(* earlier hold what they held.                                            *)
(***************************************************************************)
GaussIntegrated == {"Tri6", "Quad4", "Quad8", "Tet10", "Hexa8", "Hexa20"}

\* the position of the attribute name in the result of the latest call, 0
\* when the call did not return it
PositionOf(name) ==
    LET names == ReturnedNames(elem_call.op)
    IN  IF elem_call.err = "" /\ \E p \in DOMAIN names : names[p] = name
        THEN CHOOSE p \in DOMAIN names : names[p] = name
        ELSE 0

====
